---------------------------- MODULE Spec2Model ----------------------------
(***************************************************************************)
(* A model of the Open SWE agent server (apps/agent/agent): the sandbox    *)
(* lifecycle of get_agent, the per-thread message queue, the routing of a  *)
(* Linear comment to a run or to the queue, and the after-agent PR         *)
(* finalization.                                                           *)
(*                                                                         *)
(* Granularity: one action per suspension point (await) of the coroutine   *)
(* it models; the code between two awaits runs without interleaving on the *)
(* event loop and is part of the action of the await that precedes it.     *)
(*                                                                         *)
(* Fault model: the sandbox provider, the commands run in a sandbox, the   *)
(* GitHub API and the thread-status lookup can fail.  The orchestrator's   *)
(* thread metadata (client.threads.get / update in server.py) and the      *)
(* key-value store are taken as available: their calls return.             *)
(***************************************************************************)
EXTENDS Naturals, Sequences, FiniteSets, TLC

(***************************************************************************)
(* Bounds of the model.                                                    *)
(***************************************************************************)
MaxCalls == 2          \* get_agent calls started in one behaviour
MaxSandboxes == 2      \* sandboxes the provider hands out in one behaviour
MaxComments == 3       \* Linear comments processed in one behaviour
MaxHooks == 2          \* after-agent hook runs in one behaviour

(***************************************************************************)
(* Program constants (server.py 156-158).                                  *)
(***************************************************************************)
SANDBOX_CREATING == "__creating__"
SANDBOX_CREATION_TIMEOUT == 180
SANDBOX_POLL_INTERVAL == 1

None == "None"

Threads == {"t1", "t2"}
Procs == {"p1", "p2"}

\* The names the provider gives to the sandboxes it creates, in order.
SandboxNames == <<"sb1", "sb2", "sb3", "sb4">>
SandboxIds == {SandboxNames[i] : i \in 1..Len(SandboxNames)}

\* The background tasks that run process_linear_issue.
Tasks == {"k1", "k2"}

\* The prompt built for the n-th comment processed; none is empty.
Prompts == <<"m1", "m2", "m3", "m4", "m5">>

\* Thread statuses the orchestrator reports.
Statuses == {"idle", "busy", "interrupted", "error"}

VARIABLES
  \* ---- orchestrator thread metadata (client.threads) ----
  sandbox_id,        \* [Threads -> {None, SANDBOX_CREATING} \cup SandboxIds]
  repo_dir,          \* [Threads -> BOOLEAN]: metadata "repo_dir" is set
  \* ---- process-wide registries ----
  server_backends,   \* server._SANDBOX_BACKENDS: [Threads -> {None} \cup SandboxIds]
  SANDBOX_BACKENDS,  \* utils.sandbox_state.SANDBOX_BACKENDS, same shape
  \* ---- the sandbox provider and the sandboxes ----
  created,           \* number of sandboxes the provider has created
  cloned,            \* the sandboxes that hold a checkout of the repository
  \* ---- one get_agent coroutine per process ----
  pc,                \* position in get_agent
  tid,               \* thread_id of the call
  sid,               \* local sandbox_id
  backend,           \* local sandbox_backend (the id behind the handle)
  elapsed,           \* local elapsed of _wait_for_sandbox_id
  \* ---- history of the calls ----
  calls,             \* get_agent calls started
  polls,             \* metadata reads made by the wait loop of the call
  path,              \* branch the call took: "create", "connect", "replace"
  out,               \* how the last call of the process ended
  ret,               \* sandbox behind the agent the last call returned
  prov,              \* provisioning calls made by the call
  made,              \* the sandbox the call created, if any
  left,              \* persisted sandbox_id of the thread when the call ended
  fresh,             \* the thread was brand new when the call started
  waited,            \* the call went through _wait_for_sandbox_id
  solo,              \* no other call on the thread overlapped this one
  prev,              \* sandbox of the preceding clean call on the thread
  clean,             \* [Threads -> ...]: sandbox of the last call on the
                     \* thread if it was solo and had no failure
  virgin,            \* [Threads -> BOOLEAN]: metadata never written
  tool               \* the last sandbox lookup of commit_and_open_pr

sandboxVars == <<sandbox_id, repo_dir, server_backends, SANDBOX_BACKENDS,
                 created, cloned, pc, tid, sid, backend, elapsed, calls,
                 polls, path, out, ret, prov, made, left, fresh, waited,
                 solo, prev, clean, virgin, tool>>

VARIABLES
  \* ---- the key-value store and the orchestrator's threads ----
  store,             \* [Threads -> ...]: the item ("queue", t) /
                     \* "pending_messages": None, or its "messages" list
  thread_status,     \* [Threads -> Statuses]
  runs,              \* [Threads -> Nat]: runs created on the thread
  messages,          \* [Threads -> Seq(Seq(prompt))]: the user messages the
                     \* queue hook added to the agent state, each one the
                     \* list of its text blocks
  \* ---- one process_linear_issue coroutine per task ----
  wpc,               \* position in process_linear_issue
  wthread,           \* thread_id of the comment
  prompt,            \* the prompt built for the comment
  existing_messages, \* local list of queue_message_for_thread
  \* ---- the before-model hook of the run of each thread ----
  hpc,               \* position in check_message_queue_before_model
  queued_messages,   \* local list of the hook
  \* ---- history ----
  comments,          \* comments whose processing has started
  did,               \* what the processing of the task's comment did
  overlap,           \* [Threads -> BOOLEAN]: two queue operations on the
                     \* thread have overlapped
  pending,           \* contents enqueued since the last drain ended
  drained,           \* [Threads -> BOOLEAN]: a drain has ended
  expected,          \* value of pending when the last drain ended
  surfaced           \* text blocks the last drain returned (<<>> if none)

queueVars == <<store, thread_status, runs, messages, wpc, wthread, prompt,
               existing_messages, hpc, queued_messages, comments, did,
               overlap, pending, drained, expected, surfaced>>

VARIABLES
  \* ---- the checkout in the sandbox of the thread, and GitHub ----
  checkout,          \* the repository in the sandbox:
                     \*   dirty: it has uncommitted changes
                     \*   commits: HEAD holds commits origin/HEAD lacks
                     \*   pushed: the remote holds the current branch
                     \*     with these commits
                     \*   branch: "main", the branch of the clone, or
                     \*     "target", the branch open-swe/<thread_id>
                     \*   has_target: the branch "target" exists
                     \*   upstream: the branch "target" has an upstream
  pr_open,           \* GitHub holds a pull request for the branch
  \* ---- the open_pr_if_needed coroutine ----
  ppc,               \* "idle", "agent" while the agent of a run works,
                     \* the position in open_pr_if_needed, then "done"
  run_config,        \* what the run gave the hook: which of the two
                     \* definitions of the hook is installed, and which of
                     \* thread_id, linear_issue id, last message content, PR
                     \* tool result, sandbox handle, encrypted token exist
  has_uncommitted_changes,  \* local of the hook
  pr_url,            \* local of the hook: TRUE once a PR url is held
  \* ---- history of the hook run ----
  hooks,             \* runs started, each ending with the hook
  git_cmds,          \* commands the run issued in the sandbox, in order
  github_calls,      \* GitHub API calls the run made, in order
  linear_comments,   \* comments the run posted to the issue, in order
  at_start,          \* what started last, the hook or the tool, and the
                     \* checkout and the pull request it found
  raised,            \* an exception reached the handler of line 700
  \* ---- the commit_and_open_pr tool, called by the agent of the run ----
  tpc,               \* position in commit_and_open_pr
  tool_uncommitted,  \* its local has_uncommitted_changes
  tool_result        \* what its last call returned: "none" before a call,
                     \* "success", or the error of the result

toolVars == <<tpc, tool_uncommitted, tool_result>>

hookVars == <<checkout, pr_open, ppc, run_config, has_uncommitted_changes, pr_url,
            hooks, git_cmds, github_calls, linear_comments, at_start,
            raised>>

prVars == <<hookVars, toolVars>>

VARIABLES
  \* ---- the webhook endpoint (webapp.py 695-834) ----
  verify_call,       \* the last call of verify_linear_signature: its
                     \* arguments, how the signature was made, the result
  wh_pc,             \* position in linear_webhook
  delivery,          \* the request being handled
  response,          \* the answer to it
  background_tasks   \* the tasks the handler scheduled for the request

webhookVars == <<verify_call, wh_pc, delivery, response, background_tasks>>

VARIABLES
  \* ---- utilities called by the parts above ----
  crypt_call,        \* the last call of encrypt_token or decrypt_token:
                     \* its argument, the key configured, and the result
  wrapped_call       \* the last tool call that went through
                     \* ToolErrorMiddleware: the wrapper, the request, what
                     \* the handler did, and what the wrapper did

utilVars == <<crypt_call, wrapped_call>>

VARIABLES
  \* ---- one sandbox and _clone_or_pull_repo_in_sandbox running in it ----
  workspace_dir,     \* /workspace/<repo>: "absent", "empty", "files" (present,
                     \* not empty, no .git) or "checkout"
  origin_url,        \* remote.origin.url of the checkout: "none", "clean"
                     \* or "token"
  local_changes,     \* the checkout holds uncommitted changes
  clone_pc,          \* position in the routine
  status_result,     \* what git status --porcelain returned
  executed,          \* the commands the call has issued, in order
  clone_outcome,     \* None while running, then "returned" or the exception
  \* ---- history of the call ----
  dir_at_call,       \* workspace_dir when the call started
  token_used,        \* a command with the token in its URL ran in the call
  pulled_dirty,      \* git pull ran on a checkout with uncommitted changes
  faulted            \* a command of the call failed for a reason outside
                     \* the routine (sandbox or network)

cloneVars == <<workspace_dir, origin_url, local_changes, clone_pc,
               status_result, executed, clone_outcome, dir_at_call,
               token_used, pulled_dirty, faulted>>

VARIABLES
  \* ---- history of the hooks that failed ----
  undelivered        \* [Threads -> contents]: what a hook had read when it
                     \* failed after its delete

drainVars == <<undelivered>>

VARIABLES
  \* ---- the push of PR finalization, in the sandbox of cloneVars ----
  push_pc,           \* position in the push: "idle", "get_url", "push"
  push_by,           \* "hook" (open_pr_if_needed) or "tool" (git_push)
  push_token,      \* the decrypted token of the run, "" if none
  remote_url,        \* what git remote get-url origin gave
  pushed_to,         \* the remote the push was given
  origin_before      \* origin_url when the push part started

pushVars == <<push_pc, push_by, push_token, remote_url, pushed_to,
              origin_before>>

VARIABLES
  \* ---- the conversation of one thread and post_to_linear_after_model ----
  conversation,      \* state["messages"]: the messages of the thread, each
                     \*   role: "human", "ai" or "tool"
                     \*   text: the content is a non-empty string
                     \*   tool_calls: an AI message that calls tools
  linear_messages_sent_count,  \* the field of the agent state
  npc,               \* position of the run: "idle" between runs,
                     \* "before_model", "model", "after_model", "posting",
                     \* "tools"
  has_issue,         \* the run's configurable holds a linear_issue id
  after_model_posts, \* history: positions in conversation of the messages
                     \* the hook posted as a comment, in order
  after_agent_posts  \* history: the comments open_pr_if_needed posted, each
                     \* the position of the message it holds and its kind

notifyVars == <<conversation, linear_messages_sent_count, npc, has_issue,
                after_model_posts, after_agent_posts>>

vars == <<sandboxVars, queueVars, prVars, webhookVars, utilVars, cloneVars,
          drainVars, pushVars, notifyVars>>

\* What the actions of one part of the program leave alone.
otherThanQueueAndDrain ==
  <<sandboxVars, prVars, webhookVars, utilVars, cloneVars,
    pushVars, notifyVars>>
otherThanSandbox ==
  <<queueVars, prVars, webhookVars, utilVars, cloneVars, drainVars,
    pushVars, notifyVars>>
otherThanQueue == <<otherThanQueueAndDrain, drainVars>>
otherThanPR ==
  <<sandboxVars, queueVars, webhookVars, utilVars, cloneVars, drainVars,
    pushVars, notifyVars>>
otherThanWebhook ==
  <<sandboxVars, queueVars, prVars, utilVars, cloneVars, drainVars,
    pushVars, notifyVars>>
otherThanUtil ==
  <<sandboxVars, queueVars, prVars, webhookVars, cloneVars, drainVars,
    pushVars, notifyVars>>
otherThanClone ==
  <<sandboxVars, queueVars, prVars, webhookVars, utilVars, drainVars,
    pushVars, notifyVars>>
otherThanPush ==
  <<sandboxVars, queueVars, prVars, webhookVars, utilVars, cloneVars,
    drainVars, notifyVars>>
otherThanNotify ==
  <<sandboxVars, queueVars, prVars, webhookVars, utilVars, cloneVars,
    drainVars, pushVars>>
otherThanCrypt == <<otherThanUtil, wrapped_call>>
otherThanWrap == <<otherThanUtil, crypt_call>>

Raised == {"TimeoutError", "provision_failed", "clone_failed",
           "replacement_failed", "sync_failed"}

NoTool == [called |-> FALSE, thread |-> None, found |-> FALSE,
           backend |-> None, error |-> None]

SandboxInit ==
  /\ sandbox_id = [t \in Threads |-> None]
  /\ repo_dir = [t \in Threads |-> FALSE]
  /\ server_backends = [t \in Threads |-> None]
  /\ SANDBOX_BACKENDS = [t \in Threads |-> None]
  /\ created = 0
  /\ cloned = {}
  /\ pc = [p \in Procs |-> "idle"]
  /\ tid = [p \in Procs |-> "t1"]
  /\ sid = [p \in Procs |-> None]
  /\ backend = [p \in Procs |-> None]
  /\ elapsed = [p \in Procs |-> 0]
  /\ calls = 0
  /\ polls = [p \in Procs |-> 0]
  /\ path = [p \in Procs |-> None]
  /\ out = [p \in Procs |-> None]
  /\ ret = [p \in Procs |-> None]
  /\ prov = [p \in Procs |-> 0]
  /\ made = [p \in Procs |-> None]
  /\ left = [p \in Procs |-> None]
  /\ fresh = [p \in Procs |-> FALSE]
  /\ waited = [p \in Procs |-> FALSE]
  /\ solo = [p \in Procs |-> FALSE]
  /\ prev = [p \in Procs |-> None]
  /\ clean = [t \in Threads |-> None]
  /\ virgin = [t \in Threads |-> TRUE]
  /\ tool = NoTool

\* The store holds no item under a key until the first put_item.
NoItem == [present |-> FALSE, messages |-> <<>>]

NoDid == [auth |-> None, status |-> None, enq |-> FALSE, run |-> FALSE,
          comment |-> None]

QueueInit ==
  /\ store = [t \in Threads |-> NoItem]
  /\ thread_status = [t \in Threads |-> "idle"]
  /\ runs = [t \in Threads |-> 0]
  /\ messages = [t \in Threads |-> <<>>]
  /\ wpc = [k \in Tasks |-> "idle"]
  /\ wthread = [k \in Tasks |-> "t1"]
  /\ prompt = [k \in Tasks |-> None]
  /\ existing_messages = [k \in Tasks |-> <<>>]
  /\ hpc = [t \in Threads |-> "idle"]
  /\ queued_messages = [t \in Threads |-> <<>>]
  /\ comments = 0
  /\ did = [k \in Tasks |-> NoDid]
  /\ overlap = [t \in Threads |-> FALSE]
  /\ pending = [t \in Threads |-> <<>>]
  /\ drained = [t \in Threads |-> FALSE]
  /\ expected = [t \in Threads |-> <<>>]
  /\ surfaced = [t \in Threads |-> <<>>]

NoRunConfig == [variant |-> "server", thread |-> FALSE, issue |-> FALSE,
                content |-> FALSE, params |-> FALSE, backend |-> FALSE,
                token |-> "absent"]

NotStarted == [by |-> "none", dirty |-> FALSE, commits |-> FALSE,
               pushed |-> FALSE, pr_open |-> FALSE]

\* A fresh clone: on the default branch, nothing changed.
PRInit ==
  /\ checkout = [dirty |-> FALSE, commits |-> FALSE, pushed |-> FALSE,
                 branch |-> "main", has_target |-> FALSE,
                 upstream |-> FALSE]
  /\ pr_open = FALSE
  /\ ppc = "idle"
  /\ run_config = NoRunConfig
  /\ has_uncommitted_changes = FALSE
  /\ pr_url = FALSE
  /\ hooks = 0
  /\ git_cmds = <<>>
  /\ github_calls = <<>>
  /\ linear_comments = <<>>
  /\ at_start = NotStarted
  /\ raised = FALSE
  /\ tpc = "idle"
  /\ tool_uncommitted = FALSE
  /\ tool_result = "none"

\* No call of verify_linear_signature yet.
NoCall == [called |-> FALSE, body |-> <<>>, signed |-> <<>>, key |-> "none",
           secret |-> "", result |-> FALSE]

\* No request is being handled.
NoDelivery == [kind |-> "none"]

WebhookInit ==
  /\ verify_call = NoCall
  /\ wh_pc = "idle"
  /\ delivery = NoDelivery
  /\ response = "none"
  /\ background_tasks = <<>>

\* A value handed to decrypt_token, or returned by encrypt_token: the empty
\* string, a ciphertext made of a token with a key, such a ciphertext with
\* a byte changed, a string that is no ciphertext, or a string that cannot
\* be encoded as UTF-8 (a lone surrogate, as JSON can carry one).
Stored(kind, key, plain) == [kind |-> kind, key |-> key, plain |-> plain]

EmptyString == Stored("empty", "", "")

\* No call of encrypt_token or decrypt_token yet.
NoCryptCall == [fn |-> "none", key |-> "", arg |-> EmptyString,
                raised |-> None, result |-> EmptyString]

\* No tool call has gone through the middleware yet.
NoWrappedCall == [wrapper |-> "none"]

UtilInit ==
  /\ crypt_call = NoCryptCall
  /\ wrapped_call = NoWrappedCall

\* git status has not run in the call.
NoStatus == [exit_code |-> None, output |-> FALSE]

\* A new sandbox: no directory, no call of the routine yet.
CloneInit ==
  /\ workspace_dir = "absent"
  /\ origin_url = "none"
  /\ local_changes = FALSE
  /\ clone_pc = "idle"
  /\ status_result = NoStatus
  /\ executed = <<>>
  /\ clone_outcome = None
  /\ dir_at_call = "absent"
  /\ token_used = FALSE
  /\ pulled_dirty = FALSE
  /\ faulted = FALSE

\* No hook has failed.
DrainInit == undelivered = [t \in Threads |-> {}]

\* A remote URL: https://<userinfo>@<host>/<owner>/<repo>.git, without the
\* "<userinfo>@" if userinfo is empty. An empty host stands for no URL.
Url(userinfo, host) == [userinfo |-> userinfo, host |-> host]

NoUrl == Url("", "")

\* What git push was given: nothing yet, a URL, or the remote name origin.
NoPush == [remote |-> "none", url |-> NoUrl]

PushInit ==
  /\ push_pc = "idle"
  /\ push_by = "hook"
  /\ push_token = ""
  /\ remote_url = NoUrl
  /\ pushed_to = NoPush
  /\ origin_before = "none"

\* A thread without messages, before its first run.
NotifyInit ==
  /\ conversation = <<>>
  /\ linear_messages_sent_count = 0
  /\ npc = "idle"
  /\ has_issue = FALSE
  /\ after_model_posts = <<>>
  /\ after_agent_posts = <<>>

Init ==
  /\ SandboxInit /\ QueueInit /\ PRInit /\ WebhookInit /\ UtilInit
  /\ CloneInit /\ DrainInit /\ PushInit /\ NotifyInit

(***************************************************************************)
(* get_agent (server.py 870-999)                                           *)
(***************************************************************************)

\* Other calls in flight on thread t.
InFlight(p, t) == {q \in Procs \ {p} : pc[q] # "idle" /\ tid[q] = t}

\* The call of p ends: locals are dropped, the history is recorded.
Finish(p, outcome, sandbox, persisted) ==
  /\ pc' = [pc EXCEPT ![p] = "idle"]
  /\ left' = [left EXCEPT ![p] = persisted]
  /\ out' = [out EXCEPT ![p] = outcome]
  /\ ret' = [ret EXCEPT ![p] = sandbox]
  /\ sid' = [sid EXCEPT ![p] = None]
  /\ backend' = [backend EXCEPT ![p] = None]
  /\ clean' = [clean EXCEPT ![tid[p]] =
                 IF outcome = "ok" /\ solo[p] /\ path[p] # "replace"
                 THEN sandbox ELSE None]

\* get_agent is entered with a thread id and for execution (870-893).
Call(p, t) ==
  /\ pc[p] = "idle"
  /\ calls < MaxCalls
  /\ calls' = calls + 1
  /\ pc' = [pc EXCEPT ![p] = "read"]
  /\ tid' = [tid EXCEPT ![p] = t]
  /\ elapsed' = [elapsed EXCEPT ![p] = 0]
  /\ polls' = [polls EXCEPT ![p] = 0]
  /\ path' = [path EXCEPT ![p] = None]
  /\ out' = [out EXCEPT ![p] = None]
  /\ ret' = [ret EXCEPT ![p] = None]
  /\ prov' = [prov EXCEPT ![p] = 0]
  /\ made' = [made EXCEPT ![p] = None]
  /\ left' = [left EXCEPT ![p] = None]
  /\ fresh' = [fresh EXCEPT ![p] = virgin[t]]
  /\ waited' = [waited EXCEPT ![p] = FALSE]
  /\ solo' = [q \in Procs |->
                IF q = p THEN InFlight(p, t) = {}
                ELSE IF q \in InFlight(p, t) THEN FALSE ELSE solo[q]]
  /\ prev' = [prev EXCEPT ![p] = IF InFlight(p, t) = {} THEN clean[t] ELSE None]
  /\ UNCHANGED <<sandbox_id, repo_dir, server_backends, SANDBOX_BACKENDS,
                 created, cloned, sid, backend, clean, virgin, tool>>


\* Mutant: the wait loop tests only "is not None".
IsRealId_NotNone(v) == v # None

\* 852: the wait loop returns a value that is set and is not the sentinel.
IsRealId(v) == v # None /\ v # SANDBOX_CREATING

\* 850: the loop condition of _wait_for_sandbox_id.
WaitLoopContinues(e) == e < SANDBOX_CREATION_TIMEOUT

\* Mutant: the handlers leave the sentinel in place.
ResetValue_Sentinel == SANDBOX_CREATING

\* 932, 966: the value the handlers write back when creation failed.
ResetValue == None

\* Mutant: the persisted id is ignored; every call that finds no creation
\* in progress creates a sandbox.
ReadSandboxId_IgnoresPersisted(p) ==
  /\ pc[p] = "read"
  /\ LET v == sandbox_id[tid[p]] IN
       /\ sid' = [sid EXCEPT ![p] = IF v = SANDBOX_CREATING THEN v ELSE None]
       /\ pc' = [pc EXCEPT ![p] = IF v = SANDBOX_CREATING THEN "wait" ELSE "mark"]
       /\ path' = [path EXCEPT ![p] =
                     IF v = SANDBOX_CREATING THEN None ELSE "create"]
       /\ waited' = [waited EXCEPT ![p] = (v = SANDBOX_CREATING)]
  /\ UNCHANGED <<sandbox_id, repo_dir, server_backends, SANDBOX_BACKENDS,
                 created, cloned, tid, backend, elapsed, calls, polls, out,
                 ret, prov, fresh, solo, prev, clean, virgin, tool, made,
                 left>>

\* 895-903, 937: the first metadata read and the branch it selects.
ReadSandboxId(p) ==
  /\ pc[p] = "read"
  /\ LET v == sandbox_id[tid[p]] IN
       /\ sid' = [sid EXCEPT ![p] = v]
       /\ pc' = [pc EXCEPT ![p] =
                   IF v = SANDBOX_CREATING THEN "wait"
                   ELSE IF v = None THEN "mark" ELSE "connect"]
       /\ path' = [path EXCEPT ![p] =
                     IF v = SANDBOX_CREATING THEN None
                     ELSE IF v = None THEN "create" ELSE "connect"]
       /\ waited' = [waited EXCEPT ![p] = (v = SANDBOX_CREATING)]
  /\ UNCHANGED <<sandbox_id, repo_dir, server_backends, SANDBOX_BACKENDS,
                 created, cloned, tid, backend, elapsed, calls, polls, out,
                 ret, prov, fresh, solo, prev, clean, virgin, tool,
                 made, left>>

\* 850-855: one iteration of the wait loop: read, return or sleep.
WaitPoll(p) ==
  /\ pc[p] = "wait"
  /\ WaitLoopContinues(elapsed[p])
  /\ LET v == sandbox_id[tid[p]] IN
       IF IsRealId(v)
       THEN /\ sid' = [sid EXCEPT ![p] = v]
            /\ pc' = [pc EXCEPT ![p] = IF v = None THEN "mark" ELSE "connect"]
            /\ path' = [path EXCEPT ![p] = IF v = None THEN "create" ELSE "connect"]
            /\ elapsed' = [elapsed EXCEPT ![p] = 0]   \* the loop's locals die
            /\ polls' = [polls EXCEPT ![p] = 0]
       ELSE /\ elapsed' = [elapsed EXCEPT ![p] = @ + SANDBOX_POLL_INTERVAL]
            /\ polls' = [polls EXCEPT ![p] = @ + 1]
            /\ UNCHANGED <<sid, pc, path>>
  /\ UNCHANGED <<sandbox_id, repo_dir, server_backends, SANDBOX_BACKENDS,
                 created, cloned, tid, backend, calls, out, ret, prov, fresh,
                 solo, prev, clean, virgin, tool,
                 made, left, waited>>

\* 857-858: the loop ran out: TimeoutError leaves get_agent.
WaitTimeout(p) ==
  /\ pc[p] = "wait"
  /\ ~WaitLoopContinues(elapsed[p])
  /\ Finish(p, "TimeoutError", None, sandbox_id[tid[p]])
  /\ UNCHANGED <<sandbox_id, repo_dir, server_backends, SANDBOX_BACKENDS,
                 created, cloned, tid, elapsed, calls, polls, path, prov,
                 fresh, solo, prev, virgin, tool,
                 made, waited>>

\* 901-903: no id persisted: write the sentinel.
MarkCreating(p) ==
  /\ pc[p] = "mark"
  /\ sandbox_id' = [sandbox_id EXCEPT ![tid[p]] = SANDBOX_CREATING]
  /\ virgin' = [virgin EXCEPT ![tid[p]] = FALSE]
  /\ pc' = [pc EXCEPT ![p] = "provision"]
  /\ UNCHANGED <<repo_dir, server_backends, SANDBOX_BACKENDS, created, cloned,
                 tid, sid, backend, elapsed, calls, polls, path, out, ret,
                 prov, fresh, solo, prev, clean, tool,
                 made, left, waited>>

\* _create_langsmith_sandbox() with no id (server.py 62-88, langsmith.py
\* 201-233): the provider creates a sandbox and returns its handle.
NewSandbox(p, next) ==
  /\ created < MaxSandboxes
  /\ created' = created + 1
  /\ backend' = [backend EXCEPT ![p] = SandboxNames[created + 1]]
  /\ made' = [made EXCEPT ![p] = SandboxNames[created + 1]]
  /\ prov' = [prov EXCEPT ![p] = @ + 1]
  /\ pc' = [pc EXCEPT ![p] = next]

\* 907-908: provisioning succeeds.
Provision(p) ==
  /\ pc[p] = "provision"
  /\ NewSandbox(p, "persist")
  /\ UNCHANGED <<sandbox_id, repo_dir, server_backends, SANDBOX_BACKENDS,
                 cloned, tid, sid, elapsed, calls, polls, path, out, ret,
                 fresh, solo, prev, clean, virgin, tool,
                 left, waited>>

\* 907, 929-936: provisioning raises; the handler resets the id and re-raises.
ProvisionFails(p) ==
  /\ pc[p] = "provision"
  /\ prov' = [prov EXCEPT ![p] = @ + 1]
  /\ sandbox_id' = [sandbox_id EXCEPT ![tid[p]] = ResetValue]
  /\ Finish(p, "provision_failed", None, ResetValue)
  /\ UNCHANGED <<repo_dir, server_backends, SANDBOX_BACKENDS, created, cloned,
                 tid, elapsed, calls, polls, path, fresh, solo, prev, virgin,
                 tool,
                 made, waited>>

\* Mutant: the id is not written before the clone.
PersistId_Skip(p) ==
  /\ pc[p] = "persist"
  /\ pc' = [pc EXCEPT ![p] = "clone"]
  /\ UNCHANGED <<sandbox_id, repo_dir, server_backends, SANDBOX_BACKENDS,
                 created, cloned, tid, sid, backend, elapsed, calls, polls,
                 path, out, ret, prov, fresh, solo, prev, clean, virgin, tool,
                 made, left, waited>>

\* 912-915: the real id is persisted right after creation.
PersistId(p) ==
  /\ pc[p] = "persist"
  /\ sandbox_id' = [sandbox_id EXCEPT ![tid[p]] = backend[p]]
  /\ pc' = [pc EXCEPT ![p] = "clone"]
  /\ UNCHANGED <<repo_dir, server_backends, SANDBOX_BACKENDS, created, cloned,
                 tid, sid, backend, elapsed, calls, polls, path, out, ret,
                 prov, fresh, solo, prev, clean, virgin, tool,
                 made, left, waited>>

\* 918-923: _clone_or_pull_repo_in_sandbox returns the checkout path.
Clone(p) ==
  /\ pc[p] = "clone"
  /\ cloned' = cloned \cup {backend[p]}
  /\ pc' = [pc EXCEPT ![p] = "persist_dir"]
  /\ UNCHANGED <<sandbox_id, repo_dir, server_backends, SANDBOX_BACKENDS,
                 created, tid, sid, backend, elapsed, calls, polls, path, out,
                 ret, prov, fresh, solo, prev, clean, virgin, tool,
                 made, left, waited>>

\* 918-923, 929-936: the clone raises (no token, a command raises, git clone
\* exits non-zero); the handler resets the id and re-raises.
CloneFails(p) ==
  /\ pc[p] = "clone"
  /\ sandbox_id' = [sandbox_id EXCEPT ![tid[p]] = ResetValue]
  /\ Finish(p, "clone_failed", None, ResetValue)
  /\ UNCHANGED <<repo_dir, server_backends, SANDBOX_BACKENDS, created, cloned,
                 tid, elapsed, calls, polls, path, prov, fresh, solo, prev,
                 virgin, tool,
                 made, waited>>

\* 983: the handle is registered under the thread id.
Register(t, b) == server_backends' = [server_backends EXCEPT ![t] = b]

\* 925-928, 983-999: repo_dir is persisted, the handle registered, the agent
\* returned.
PersistRepoDir(p) ==
  /\ pc[p] = "persist_dir"
  /\ repo_dir' = [repo_dir EXCEPT ![tid[p]] = TRUE]
  /\ Register(tid[p], backend[p])
  /\ Finish(p, "ok", backend[p], sandbox_id[tid[p]])
  /\ UNCHANGED <<sandbox_id, SANDBOX_BACKENDS, created, cloned, tid, elapsed,
                 calls, polls, path, prov, fresh, solo, prev, virgin, tool,
                 made, waited>>

\* _create_langsmith_sandbox(sandbox_id) (langsmith.py 193-199): the handle
\* of the sandbox that has this id.
ConnectTo(id) == id

\* 938-944: reconnecting to the persisted sandbox succeeds.
Connect(p) ==
  /\ pc[p] = "connect"
  /\ backend' = [backend EXCEPT ![p] = ConnectTo(sid[p])]
  /\ pc' = [pc EXCEPT ![p] = "get_dir"]
  /\ UNCHANGED <<sandbox_id, repo_dir, server_backends, SANDBOX_BACKENDS,
                 created, cloned, tid, sid, elapsed, calls, polls, path, out,
                 ret, prov, fresh, solo, prev, clean, virgin, tool,
                 made, left, waited>>

\* 945-953: reconnecting raises; the sentinel is written.
ConnectFails(p) ==
  /\ pc[p] = "connect"
  /\ sandbox_id' = [sandbox_id EXCEPT ![tid[p]] = SANDBOX_CREATING]
  /\ path' = [path EXCEPT ![p] = "replace"]
  /\ pc' = [pc EXCEPT ![p] = "reprovision"]
  /\ UNCHANGED <<repo_dir, server_backends, SANDBOX_BACKENDS, created, cloned,
                 tid, sid, backend, elapsed, calls, polls, out, ret, prov,
                 fresh, solo, prev, clean, virgin, tool,
                 made, left, waited>>

\* 955-957: the replacement sandbox is created.
Reprovision(p) ==
  /\ pc[p] = "reprovision"
  /\ NewSandbox(p, "repersist")
  /\ UNCHANGED <<sandbox_id, repo_dir, server_backends, SANDBOX_BACKENDS,
                 cloned, tid, sid, elapsed, calls, polls, path, out, ret,
                 fresh, solo, prev, clean, virgin, tool,
                 left, waited>>

\* 956, 963-968: creating the replacement raises; the id is reset, re-raise.
ReprovisionFails(p) ==
  /\ pc[p] = "reprovision"
  /\ prov' = [prov EXCEPT ![p] = @ + 1]
  /\ sandbox_id' = [sandbox_id EXCEPT ![tid[p]] = ResetValue]
  /\ Finish(p, "replacement_failed", None, ResetValue)
  /\ UNCHANGED <<repo_dir, server_backends, SANDBOX_BACKENDS, created, cloned,
                 tid, elapsed, calls, polls, path, fresh, solo, prev, virgin,
                 tool,
                 made, waited>>

\* Mutant: the replacement's id is not written to the metadata.
PersistReplacement_Skip(p) ==
  /\ pc[p] = "repersist"
  /\ pc' = [pc EXCEPT ![p] = "get_dir"]
  /\ UNCHANGED <<sandbox_id, repo_dir, server_backends, SANDBOX_BACKENDS,
                 created, cloned, tid, sid, backend, elapsed, calls, polls,
                 path, out, ret, prov, fresh, solo, prev, clean, virgin, tool,
                 made, left, waited>>

\* 959-962: the replacement's id is persisted.
PersistReplacement(p) ==
  /\ pc[p] = "repersist"
  /\ sandbox_id' = [sandbox_id EXCEPT ![tid[p]] = backend[p]]
  /\ pc' = [pc EXCEPT ![p] = "get_dir"]
  /\ UNCHANGED <<repo_dir, server_backends, SANDBOX_BACKENDS, created, cloned,
                 tid, sid, backend, elapsed, calls, polls, path, out, ret,
                 prov, fresh, solo, prev, clean, virgin, tool,
                 made, left, waited>>

\* 970-971: repo_dir is read back from the metadata.
GetRepoDir(p) ==
  /\ pc[p] = "get_dir"
  /\ pc' = [pc EXCEPT ![p] = "sync"]
  /\ UNCHANGED <<sandbox_id, repo_dir, server_backends, SANDBOX_BACKENDS,
                 created, cloned, tid, sid, backend, elapsed, calls, polls,
                 path, out, ret, prov, fresh, solo, prev, clean, virgin, tool,
                 made, left, waited>>

\* 973-978, 983-999: the checkout is pulled (or cloned when the sandbox has
\* none), the handle registered, the agent returned.
Sync(p) ==
  /\ pc[p] = "sync"
  /\ cloned' = cloned \cup {backend[p]}
  /\ Register(tid[p], backend[p])
  /\ Finish(p, "ok", backend[p], sandbox_id[tid[p]])
  /\ UNCHANGED <<sandbox_id, repo_dir, SANDBOX_BACKENDS, created, tid,
                 elapsed, calls, polls, path, prov, fresh, solo, prev, virgin,
                 tool,
                 made, waited>>

\* 973-981: the pull or clone raises and get_agent re-raises; nothing is
\* written back.
SyncFails(p) ==
  /\ pc[p] = "sync"
  /\ Finish(p, "sync_failed", None, sandbox_id[tid[p]])
  /\ UNCHANGED <<sandbox_id, repo_dir, server_backends, SANDBOX_BACKENDS,
                 created, cloned, tid, elapsed, calls, polls, path, prov,
                 fresh, solo, prev, virgin, tool,
                 made, waited>>

(***************************************************************************)
(* commit_and_open_pr, the resolution of the sandbox (tools/               *)
(* commit_and_open_pr.py 112-140).  The run configuration is the one        *)
(* process_linear_issue builds (webapp.py 623-635): thread_id and repo are  *)
(* set, and it has no "sandbox_id" key.                                     *)
(***************************************************************************)
ConfigSandboxId(t) == None

\* 129: the registry the tool reads.
ToolRegistry == SANDBOX_BACKENDS

\* The tool is called in a run of thread t, that is after get_agent
\* returned an agent for t.
ToolLookup(t) ==
  /\ \E p \in Procs : pc[p] = "idle" /\ tid[p] = t /\ out[p] = "ok"
  /\ LET h == ToolRegistry[t]
         c == ConfigSandboxId(t) IN
       IF h # None
       THEN /\ tool' = [called |-> TRUE, thread |-> t, found |-> TRUE,
                        backend |-> h, error |-> None]
            /\ UNCHANGED SANDBOX_BACKENDS
       ELSE IF c = None
       THEN /\ tool' = [called |-> TRUE, thread |-> t, found |-> FALSE,
                        backend |-> None,
                        error |-> "No sandbox found for thread"]
            /\ UNCHANGED SANDBOX_BACKENDS
       ELSE /\ tool' = [called |-> TRUE, thread |-> t, found |-> FALSE,
                        backend |-> ConnectTo(c), error |-> None]
            /\ SANDBOX_BACKENDS' = [SANDBOX_BACKENDS EXCEPT ![t] = ConnectTo(c)]
  /\ UNCHANGED <<sandbox_id, repo_dir, server_backends, created, cloned, pc,
                 tid, sid, backend, elapsed, calls, polls, path, out, ret,
                 prov, made, left, fresh, solo, prev, clean, virgin, waited>>

SandboxNext ==
  \/ \E p \in Procs, t \in Threads : Call(p, t) /\ UNCHANGED otherThanSandbox
  \/ \E p \in Procs : ReadSandboxId(p) /\ UNCHANGED otherThanSandbox
  \/ \E p \in Procs : WaitPoll(p) /\ UNCHANGED otherThanSandbox
  \/ \E p \in Procs : WaitTimeout(p) /\ UNCHANGED otherThanSandbox
  \/ \E p \in Procs : MarkCreating(p) /\ UNCHANGED otherThanSandbox
  \/ \E p \in Procs : Provision(p) /\ UNCHANGED otherThanSandbox
  \/ \E p \in Procs : ProvisionFails(p) /\ UNCHANGED otherThanSandbox
  \/ \E p \in Procs : PersistId(p) /\ UNCHANGED otherThanSandbox
  \/ \E p \in Procs : Clone(p) /\ UNCHANGED otherThanSandbox
  \/ \E p \in Procs : CloneFails(p) /\ UNCHANGED otherThanSandbox
  \/ \E p \in Procs : PersistRepoDir(p) /\ UNCHANGED otherThanSandbox
  \/ \E p \in Procs : Connect(p) /\ UNCHANGED otherThanSandbox
  \/ \E p \in Procs : ConnectFails(p) /\ UNCHANGED otherThanSandbox
  \/ \E p \in Procs : Reprovision(p) /\ UNCHANGED otherThanSandbox
  \/ \E p \in Procs : ReprovisionFails(p) /\ UNCHANGED otherThanSandbox
  \/ \E p \in Procs : PersistReplacement(p) /\ UNCHANGED otherThanSandbox
  \/ \E p \in Procs : GetRepoDir(p) /\ UNCHANGED otherThanSandbox
  \/ \E p \in Procs : Sync(p) /\ UNCHANGED otherThanSandbox
  \/ \E p \in Procs : SyncFails(p) /\ UNCHANGED otherThanSandbox
  \/ \E t \in Threads : ToolLookup(t) /\ UNCHANGED otherThanSandbox

SandboxSpec == Init /\ [][SandboxNext]_vars


(***************************************************************************)
(* Claims about the sandbox lifecycle.                                     *)
(***************************************************************************)

Done(p) == pc[p] = "idle" /\ out[p] # None

\* C1: two get_agent calls that both start on a brand-new thread (so they
\* overlap) and both return an agent made exactly one provisioning call
\* between them, and both agents are backed by the same sandbox.
C1_SingleProvisioning ==
  \A p, q \in Procs :
    (p # q /\ tid[p] = tid[q] /\ fresh[p] /\ fresh[q]
       /\ Done(p) /\ Done(q) /\ out[p] = "ok" /\ out[q] = "ok")
    => (prov[p] + prov[q] = 1 /\ ret[p] = ret[q])

\* C2: a get_agent call that follows a successful call on the same thread,
\* with no other call overlapping either of them and no failure, returns an
\* agent on the same sandbox; it reconnects and provisions nothing.
C2_SequentialSameSandbox ==
  \A p \in Procs :
    (Done(p) /\ out[p] = "ok" /\ solo[p] /\ path[p] # "replace"
       /\ prev[p] # None)
    => (ret[p] = prev[p] /\ prov[p] = 0 /\ path[p] = "connect")

C2_Witness ==
  \E p \in Procs :
    /\ Done(p) /\ out[p] = "ok" /\ solo[p] /\ path[p] = "connect"
    /\ prev[p] # None /\ ret[p] = prev[p]

C8_WaitBounded ==
  \A p \in Procs :
    /\ pc[p] = "wait"
         => /\ elapsed[p] <= SANDBOX_CREATION_TIMEOUT
            /\ elapsed[p] = polls[p] * SANDBOX_POLL_INTERVAL
            /\ prov[p] = 0 /\ made[p] = None
    /\ (waited[p] /\ pc[p] \notin {"idle", "wait"})
         => sid[p] \notin {None, SANDBOX_CREATING}
    /\ (Done(p) /\ out[p] = "TimeoutError")
         => /\ elapsed[p] = SANDBOX_CREATION_TIMEOUT
            /\ polls[p] * SANDBOX_POLL_INTERVAL = SANDBOX_CREATION_TIMEOUT
            /\ prov[p] = 0 /\ made[p] = None

C8_Witness ==
  \E p \in Procs : Done(p) /\ out[p] = "TimeoutError" /\ waited[p]

\* C9: whenever commit_and_open_pr runs in a run of a thread for which
\* get_agent succeeded, it finds the handle get_agent registered for the
\* thread and works on that sandbox.
C9_ToolFindsRegisteredHandle ==
  tool.called
    => (tool.found /\ tool.backend = server_backends[tool.thread])


(***************************************************************************)
(* process_linear_issue and queue_message_for_thread (webapp.py 393-692)   *)
(*                                                                         *)
(* The awaits before the status lookup (reaction, issue details, user and  *)
(* token lookup) touch nothing the model holds and are one step with the   *)
(* start of the processing.                                                *)
(***************************************************************************)

\* How the token acquisition of 521-565 can end.
AuthOutcomes == {"token", "auth_url", "no_account", "no_email",
                 "no_provider", "auth_error"}

\* The comments of the two early returns only.
AuthComment_EarlyReturns(a) ==
  CASE a = "auth_url" -> "authenticate_link"
    [] a = "no_account" -> "no_langsmith_account"
    [] OTHER -> None

\* The comment process_linear_issue posts when it has no token.
AuthComment(a) ==
  CASE a = "auth_url" -> "authenticate_link"
    [] a = "no_account" -> "no_langsmith_account"
    [] a = "no_email" -> "no_email"
    [] a = "no_provider" -> "configuration_error"
    [] a = "auth_error" -> "unable_to_authenticate"
    [] OTHER -> None

\* Variant of IsBusy that takes every status but "idle" as busy.
IsBusy_NotIdle(status) == status # "idle"

\* is_thread_active, line 421.
IsBusy(status) == status = "busy"

\* Variant of AppendMessage that puts the new message first.
AppendMessage_Prepend(list, m) == <<m>> \o list

\* queue_message_for_thread, line 453.
AppendMessage(list, m) == Append(list, m)

\* The enqueues of other tasks that are between their call and their return.
Enqueuing(k, t) ==
  {j \in Tasks \ {k} : wthread[j] = t /\ wpc[j] \in {"get", "put"}}

\* process_linear_issue returns: its locals are gone.
Return(k) ==
  /\ wpc' = [wpc EXCEPT ![k] = "idle"]
  /\ wthread' = [wthread EXCEPT ![k] = "t1"]
  /\ prompt' = [prompt EXCEPT ![k] = None]
  /\ existing_messages' = [existing_messages EXCEPT ![k] = <<>>]

\* Lines 478-565 and 669-692: the comment is taken up, the prompt is built
\* and the token is acquired; without a token one comment is posted and the
\* processing ends.
ProcessLinearIssue(k, t, a) ==
  /\ wpc[k] = "idle"
  /\ comments < MaxComments
  /\ comments' = comments + 1
  /\ wthread' = [wthread EXCEPT ![k] = IF a = "token" THEN t ELSE "t1"]
  /\ prompt' = [prompt EXCEPT ![k] =
                  IF a = "token" THEN Prompts[comments + 1] ELSE None]
  /\ did' = [did EXCEPT ![k] = [NoDid EXCEPT !.auth = a,
                                             !.comment = AuthComment(a)]]
  /\ wpc' = [wpc EXCEPT ![k] = IF a = "token" THEN "status" ELSE "idle"]
  /\ UNCHANGED <<store, thread_status, runs, messages, existing_messages,
                 hpc, queued_messages, overlap, pending, drained, expected,
                 surfaced>>

\* Lines 638-646 and 658-660 with is_thread_active (402-421): the status is
\* looked up, a failed lookup gives "idle", and the branch is taken.
IsThreadActive(k) ==
  /\ wpc[k] = "status"
  /\ \E ok \in BOOLEAN :
       LET t == wthread[k]
           status == IF ok THEN thread_status[t] ELSE "idle"
           seen == IF ok THEN thread_status[t] ELSE "lookup_failed"
       IN  /\ did' = [did EXCEPT ![k].status = seen]
           /\ IF IsBusy(status)
                THEN /\ wpc' = [wpc EXCEPT ![k] = "get"]
                     /\ overlap' = [overlap EXCEPT ![t] =
                          @ \/ hpc[t] # "idle" \/ Enqueuing(k, t) # {}]
                ELSE /\ wpc' = [wpc EXCEPT ![k] = "create"]
                     /\ UNCHANGED overlap
  /\ UNCHANGED <<store, thread_status, runs, messages, wthread, prompt,
                 existing_messages, hpc, queued_messages, comments, pending,
                 drained, expected, surfaced>>

\* queue_message_for_thread, lines 445-451: the stored list is read; an item
\* that does not exist gives the empty list, whether the store reports it
\* with no item or with an exception.
GetItem(k) ==
  /\ wpc[k] = "get"
  /\ LET item == store[wthread[k]]
     IN  existing_messages' = [existing_messages EXCEPT ![k] =
           IF item.present THEN item.messages ELSE <<>>]
  /\ wpc' = [wpc EXCEPT ![k] = "put"]
  /\ UNCHANGED <<store, thread_status, runs, messages, wthread, prompt,
                 hpc, queued_messages, comments, did, overlap, pending,
                 drained, expected, surfaced>>

\* queue_message_for_thread, lines 453-463: the message is appended to the
\* list read and the item is overwritten with the result.
PutItem(k) ==
  /\ wpc[k] = "put"
  /\ LET t == wthread[k]
     IN  /\ store' = [store EXCEPT ![t] =
               [present |-> TRUE,
                messages |-> AppendMessage(existing_messages[k], prompt[k])]]
         /\ pending' = [pending EXCEPT ![t] = Append(@, prompt[k])]
  /\ did' = [did EXCEPT ![k].enq = TRUE]
  /\ Return(k)
  /\ UNCHANGED <<thread_status, runs, messages, hpc, queued_messages,
                 comments, overlap, drained, expected, surfaced>>

\* Lines 659-668: a run is created on the thread, which makes it busy.
RunsCreate(k) ==
  /\ wpc[k] = "create"
  /\ LET t == wthread[k]
     IN  /\ runs' = [runs EXCEPT ![t] = @ + 1]
         /\ thread_status' = [thread_status EXCEPT ![t] = "busy"]
  /\ did' = [did EXCEPT ![k].run = TRUE]
  /\ Return(k)
  /\ UNCHANGED <<store, messages, hpc, queued_messages, comments, overlap,
                 pending, drained, expected, surfaced>>

\* The run of a thread ends, between two model calls, and the orchestrator
\* reports the thread with another status.
RunEnds(t, s) ==
  /\ thread_status[t] = "busy"
  /\ hpc[t] = "idle"
  /\ s \in Statuses \ {"busy"}
  /\ thread_status' = [thread_status EXCEPT ![t] = s]
  /\ UNCHANGED <<store, runs, messages, wpc, wthread, prompt,
                 existing_messages, hpc, queued_messages, comments, did,
                 overlap, pending, drained, expected, surfaced>>

(***************************************************************************)
(* check_message_queue_before_model (middleware/check_message_queue.py)    *)
(* The hook runs in the run of its thread, before every model call.        *)
(***************************************************************************)

\* Lines 83-87: one text block per message with a non-empty content.
ContentBlocks(msgs) == SelectSeq(msgs, LAMBDA m : m # "")

\* A delete that leaves the item in the store.
KeepItem(item) == item

\* Line 72: the item is deleted whatever it holds by then.
DeleteItem(item) == NoItem

\* Lines 60-69: the item is read; without an item the hook returns None.
DrainGet(t) ==
  /\ thread_status[t] = "busy"
  /\ hpc[t] = "idle"
  /\ overlap' = [overlap EXCEPT ![t] = @ \/ Enqueuing("none", t) # {}]
  /\ IF store[t].present
       THEN /\ queued_messages' = [queued_messages EXCEPT ![t] =
                                     store[t].messages]
            /\ hpc' = [hpc EXCEPT ![t] = "delete"]
            /\ UNCHANGED <<pending, drained, expected, surfaced>>
       ELSE /\ drained' = [drained EXCEPT ![t] = TRUE]
            /\ expected' = [expected EXCEPT ![t] = pending[t]]
            /\ surfaced' = [surfaced EXCEPT ![t] = <<>>]
            /\ pending' = [pending EXCEPT ![t] = <<>>]
            /\ UNCHANGED <<queued_messages, hpc>>
  /\ UNCHANGED <<store, thread_status, runs, messages, wpc, wthread, prompt,
                 existing_messages, comments, did>>

\* Lines 72-103: the item is deleted and the messages read are returned as
\* the text blocks of one user message, which the agent state appends.
DrainDelete(t) ==
  /\ hpc[t] = "delete"
  /\ store' = [store EXCEPT ![t] = DeleteItem(@)]
  /\ LET blocks == ContentBlocks(queued_messages[t])
     IN  /\ messages' = [messages EXCEPT ![t] =
               IF blocks = <<>> THEN @ ELSE Append(@, blocks)]
         /\ surfaced' = [surfaced EXCEPT ![t] = blocks]
  /\ drained' = [drained EXCEPT ![t] = TRUE]
  /\ expected' = [expected EXCEPT ![t] = pending[t]]
  /\ pending' = [pending EXCEPT ![t] = <<>>]
  /\ queued_messages' = [queued_messages EXCEPT ![t] = <<>>]
  /\ hpc' = [hpc EXCEPT ![t] = "idle"]
  /\ UNCHANGED <<thread_status, runs, wpc, wthread, prompt,
                 existing_messages, comments, did, overlap>>

\* The contents of a list, as a set.
Contents(msgs) == {msgs[i] : i \in 1..Len(msgs)}

\* Lines 72-106: the item is deleted, then a statement of the hook raises;
\* the except clause at 104 logs, and the hook returns None: nothing is
\* injected.
DrainFailsAfterDelete(t) ==
  /\ hpc[t] = "delete"
  /\ store' = [store EXCEPT ![t] = DeleteItem(@)]
  /\ undelivered' = [undelivered EXCEPT ![t] =
                       @ \cup Contents(queued_messages[t])]
  /\ surfaced' = [surfaced EXCEPT ![t] = <<>>]
  /\ drained' = [drained EXCEPT ![t] = TRUE]
  /\ expected' = [expected EXCEPT ![t] = pending[t]]
  /\ pending' = [pending EXCEPT ![t] = <<>>]
  /\ queued_messages' = [queued_messages EXCEPT ![t] = <<>>]
  /\ hpc' = [hpc EXCEPT ![t] = "idle"]
  /\ UNCHANGED <<thread_status, runs, messages, wpc, wthread, prompt,
                 existing_messages, comments, did, overlap>>

QueueNext ==
  \/ \E k \in Tasks, t \in Threads, a \in AuthOutcomes :
       ProcessLinearIssue(k, t, a) /\ UNCHANGED otherThanQueue
  \/ \E k \in Tasks : IsThreadActive(k) /\ UNCHANGED otherThanQueue
  \/ \E k \in Tasks : GetItem(k) /\ UNCHANGED otherThanQueue
  \/ \E k \in Tasks : PutItem(k) /\ UNCHANGED otherThanQueue
  \/ \E k \in Tasks : RunsCreate(k) /\ UNCHANGED otherThanQueue
  \/ \E t \in Threads, s \in Statuses : RunEnds(t, s) /\ UNCHANGED otherThanQueue
  \/ \E t \in Threads : DrainGet(t) /\ UNCHANGED otherThanQueue
  \/ \E t \in Threads : DrainDelete(t) /\ UNCHANGED otherThanQueue
  \/ \E t \in Threads :
       DrainFailsAfterDelete(t) /\ UNCHANGED otherThanQueueAndDrain

QueueSpec == Init /\ [][QueueNext]_vars

(***************************************************************************)
(* Properties of the message queue and of the routing of a comment.        *)
(***************************************************************************)

\* The text blocks of a list of user messages, in order.
RECURSIVE Flatten(_)
Flatten(ms) == IF ms = <<>> THEN <<>> ELSE Head(ms) \o Flatten(Tail(ms))

C4_NoDuplicateInjection ==
  \A t \in Threads :
    LET blocks == Flatten(messages[t])
    IN  \A i, j \in 1..Len(blocks) : blocks[i] = blocks[j] => i = j

Outcomes == {"ok", "fail", "raise"}

Variants == {"server", "middleware"}

\* github_token_encrypted of the run configuration: not there, there but
\* decrypt_token returns "" for it (encryption.py 69-74), or there and valid.
Tokens == {"absent", "undecryptable", "valid"}

\* A decryption that gives a token for whatever is stored.
DecryptToken_Any(t) == "token"

\* decrypt_token (encryption.py 61-74): the token, or "" for a stored value
\* that cannot be decrypted.
DecryptToken(t) == IF t = "valid" THEN "token" ELSE ""

RunConfigs ==
  {c \in [variant : Variants, thread : BOOLEAN, issue : BOOLEAN,
          content : BOOLEAN, params : BOOLEAN, backend : BOOLEAN,
          token : Tokens] :
     c.variant = "server" => ~c.params}

\* The states the agent's own commands can leave the checkout in.  Commits
\* pushed from the branch of the clone are part of origin/HEAD.
Checkouts ==
  {c \in [dirty : BOOLEAN, commits : BOOLEAN, pushed : BOOLEAN,
          branch : {"main", "target"}, has_target : BOOLEAN,
          upstream : BOOLEAN] :
     /\ c.branch = "target" => c.has_target
     /\ c.upstream => c.has_target
     /\ c.pushed => (c.commits /\ c.branch = "target")}

\* The checkout holds work that is not on the remote.
Unpushed(c) == c.commits /\ ~c.pushed

\* What the hook or the tool finds when it starts.
Found(who) == [by |-> who, dirty |-> checkout.dirty,
               commits |-> checkout.commits, pushed |-> checkout.pushed,
               pr_open |-> pr_open]

\* The hook, or the tool, started on a checkout with no uncommitted change
\* and no commit the remote lacks.
CleanAtStart(who) ==
  at_start.by = who /\ ~at_start.dirty /\ ~Unpushed(at_start)

\* Variant of LogPrints that prints the commits the remote lacks.
LogPrints_Unpushed(c) == Unpushed(c)

\* Lines 587-592: what "git log @{upstream}..HEAD || git log
\* origin/HEAD..HEAD" prints.  The branch of the clone follows origin/HEAD;
\* git checkout -b gives the branch "target" no upstream, and without one
\* the second git log lists every commit origin/HEAD lacks, pushed or not.
LogPrints(c) ==
  c.commits /\ ~(c.branch = "target" /\ c.upstream /\ c.pushed)

\* Variant of HasChanges that finds changes in every checkout.
HasChanges_Always(uncommitted, unpushed) == TRUE

\* Line 594.
HasChanges(uncommitted, unpushed) == uncommitted \/ unpushed

\* Lines 555-559, 571-575, 598-602: the plain comment, posted only for an
\* issue id and a last message content that are not empty.
PostResponse(kind) ==
  linear_comments' =
    IF run_config.issue /\ run_config.content
      THEN Append(linear_comments, kind)
      ELSE linear_comments

\* Lines 700-718: the handler of the hook posts the error comment.
Except ==
  /\ raised' = TRUE
  /\ ppc' = "done"
  /\ linear_comments' =
       IF run_config.issue THEN Append(linear_comments, "agent_error")
                           ELSE linear_comments

\* A command is sent to the sandbox.
Execute(cmd) == git_cmds' = Append(git_cmds, cmd)

\* A run starts on the thread with its configuration.
RunStarts(c) ==
  /\ ppc = "idle"
  /\ hooks < MaxHooks
  /\ c \in RunConfigs
  /\ hooks' = hooks + 1
  /\ run_config' = c
  /\ ppc' = "model"
  /\ UNCHANGED <<checkout, pr_open, has_uncommitted_changes, pr_url,
                 git_cmds, github_calls, linear_comments, at_start,
                 raised>>

\* post_to_linear_after_model (lines 432-522) after the first model call of
\* the run.  It posts the reply as an agent-response comment if the run has
\* an issue id, the thread holds exactly one human message, the reply is the
\* message next to it and has text; text says whether the reply has text
\* and no queued message was injected before it.  The later replies of the
\* run follow tool results, or a second human message, and are not posted.
PostToLinearAfterModel(text) ==
  /\ ppc = "model"
  /\ ppc' = "agent"
  /\ linear_comments' =
       IF run_config.issue /\ hooks = 1 /\ text
         THEN Append(linear_comments, "model_response")
         ELSE linear_comments
  /\ UNCHANGED <<checkout, pr_open, run_config, has_uncommitted_changes,
                 pr_url, hooks, git_cmds, github_calls, at_start, raised>>

\* The agent changes the checkout with its own commands.
AgentWorks(c) ==
  /\ ppc = "agent"
  /\ tpc = "idle"
  /\ c \in Checkouts
  /\ c # checkout
  /\ checkout' = c
  /\ UNCHANGED <<pr_open, ppc, run_config, has_uncommitted_changes,
                 pr_url, hooks, git_cmds, github_calls, linear_comments, at_start,
                 raised>>

\* A resolution that asks for the thread id only.
Resolved_ThreadOnly(c) == c.thread

\* Lines 554-576 (open_pr.py 94-116): the run has a thread id and a sandbox
\* handle is registered for it; repo_dir is a formatted string and never
\* empty.
Resolved(c) == c.thread /\ c.backend

\* Lines 536-576 (open_pr.py 61-116): the early returns of the hook.
OpenPrIfNeeded ==
  /\ ppc = "agent"
  /\ tpc = "idle"
  /\ at_start' = Found("hook")
  /\ raised' = FALSE
  /\ pr_url' = FALSE
  /\ has_uncommitted_changes' = FALSE
  /\ git_cmds' = <<>>
  /\ github_calls' = <<>>
  /\ LET c == run_config
     IN  IF c.variant = "middleware" /\ ~c.params
           THEN /\ ppc' = "done"
                /\ linear_comments' =
                     IF c.issue /\ c.content
                       THEN Append(linear_comments, "agent_response_bare")
                       ELSE linear_comments
           ELSE IF ~Resolved(c)
             THEN /\ ppc' = "done"
                  /\ linear_comments' =
                       IF c.issue /\ c.content
                         THEN Append(linear_comments, "agent_response")
                         ELSE linear_comments
             ELSE /\ ppc' = "status"
                  /\ UNCHANGED linear_comments
  /\ tool_result' = "none"
  /\ UNCHANGED <<checkout, pr_open, run_config, hooks>>

\* Lines 578-582: git status --porcelain.
GitStatus(r) ==
  /\ ppc = "status"
  /\ Execute("status")
  /\ IF r = "raise"
       THEN Except /\ UNCHANGED has_uncommitted_changes
       ELSE /\ has_uncommitted_changes' = (r = "ok" /\ checkout.dirty)
            /\ ppc' = "fetch"
            /\ UNCHANGED <<linear_comments, raised>>
  /\ UNCHANGED <<checkout, run_config, pr_url, hooks, pr_open, github_calls,
                 at_start>>

\* Lines 584-586: git fetch origin, whose result is not looked at.
GitFetch(r) ==
  /\ ppc = "fetch"
  /\ Execute("fetch")
  /\ IF r = "raise"
       THEN Except
       ELSE ppc' = "log" /\ UNCHANGED <<linear_comments, raised>>
  /\ UNCHANGED <<checkout, run_config, has_uncommitted_changes, pr_url,
                 hooks, pr_open, github_calls, at_start>>

\* Lines 587-603: git log of the unpushed commits, and the return without
\* changes.
GitLog(r) ==
  /\ ppc = "log"
  /\ Execute("log")
  /\ IF r = "raise"
       THEN Except
       ELSE LET has_unpushed_commits == r = "ok" /\ LogPrints(checkout)
            IN  IF HasChanges(has_uncommitted_changes, has_unpushed_commits)
                  THEN /\ ppc' = "rev_parse"
                       /\ UNCHANGED <<linear_comments, raised>>
                  ELSE /\ ppc' = "done"
                       /\ PostResponse("agent_response")
                       /\ UNCHANGED raised
  /\ UNCHANGED <<checkout, run_config, has_uncommitted_changes, pr_url,
                 hooks, pr_open, github_calls, at_start>>

\* Lines 607-614: git rev-parse --abbrev-ref HEAD; a failed command gives
\* the empty branch name.
RevParse(r) ==
  /\ ppc = "rev_parse"
  /\ Execute("rev_parse")
  /\ IF r = "raise"
       THEN Except
       ELSE /\ ppc' = IF r = "ok" /\ checkout.branch = "target"
                        THEN "config_name" ELSE "checkout_b"
            /\ UNCHANGED <<linear_comments, raised>>
  /\ UNCHANGED <<checkout, run_config, has_uncommitted_changes, pr_url,
                 hooks, pr_open, github_calls, at_start>>

\* Lines 615-618: git checkout -b, which git refuses for an existing branch.
CheckoutNew(r) ==
  /\ ppc = "checkout_b"
  /\ Execute("checkout_b")
  /\ IF r = "raise"
       THEN Except /\ UNCHANGED checkout
       ELSE /\ IF r = "ok" /\ ~checkout.has_target
                 THEN /\ checkout' = [checkout EXCEPT !.branch = "target",
                                                      !.has_target = TRUE,
                                                      !.upstream = FALSE]
                      /\ ppc' = "config_name"
                 ELSE /\ ppc' = "checkout"
                      /\ UNCHANGED checkout
            /\ UNCHANGED <<linear_comments, raised>>
  /\ UNCHANGED <<run_config, has_uncommitted_changes, pr_url, hooks, pr_open,
                 github_calls, at_start>>

\* Lines 619-621: git checkout of the existing branch; result not looked at.
\* HEAD moves to the commits of that branch, whatever they are.
CheckoutExisting(r) ==
  /\ ppc = "checkout"
  /\ Execute("checkout")
  /\ IF r = "raise"
       THEN Except /\ UNCHANGED checkout
       ELSE /\ IF r = "ok" /\ checkout.has_target
                 THEN \E c \in Checkouts :
                        /\ c.branch = "target"
                        /\ c.dirty = checkout.dirty
                        /\ c.upstream = checkout.upstream
                        /\ checkout.branch = "target" => c = checkout
                        /\ checkout' = c
                 ELSE UNCHANGED checkout
            /\ ppc' = "config_name"
            /\ UNCHANGED <<linear_comments, raised>>
  /\ UNCHANGED <<run_config, has_uncommitted_changes, pr_url, hooks, pr_open,
                 github_calls, at_start>>

\* Lines 623-631: git config user.name, git config user.email, git add -A,
\* one after the other; no result is looked at.
Prepare(cmd, next, r) ==
  /\ Execute(cmd)
  /\ IF r = "raise"
       THEN Except
       ELSE /\ ppc' = next
            /\ UNCHANGED <<linear_comments, raised>>
  /\ UNCHANGED <<checkout, run_config, has_uncommitted_changes, pr_url,
                 hooks, pr_open, github_calls, at_start>>

ConfigName(r) == ppc = "config_name" /\ Prepare("config_name", "config_email", r)

ConfigEmail(r) == ppc = "config_email" /\ Prepare("config_email", "add", r)

AddAll(r) ==
  /\ ppc = "add"
  /\ Prepare("add", IF r = "ok" THEN "commit" ELSE "commit_unstaged", r)

\* Lines 633-641 and 679-696: git commit, issued whether or not anything is
\* staged; then the token is read.  Without an encrypted token the local
\* github_token is unbound and line 641 raises; with a token that decrypts
\* to "" the push and the pull request are skipped and the plain comment is
\* posted.
Commit(r) ==
  /\ ppc \in {"commit", "commit_unstaged"}
  /\ Execute("commit")
  /\ IF r = "raise" \/ run_config.token = "absent"
       THEN Except
       ELSE IF DecryptToken(run_config.token) = ""
         THEN /\ ppc' = "done"
              /\ PostResponse("agent_response")
              /\ UNCHANGED raised
         ELSE ppc' = "remote_url" /\ UNCHANGED <<linear_comments, raised>>
  /\ checkout' = IF r = "ok" /\ ppc = "commit" /\ checkout.dirty
                   THEN [checkout EXCEPT !.dirty = FALSE, !.commits = TRUE,
                                         !.pushed = FALSE]
                   ELSE checkout
  /\ UNCHANGED <<run_config, has_uncommitted_changes, pr_url, hooks, pr_open,
                 github_calls, at_start>>

\* Lines 642-645: git remote get-url origin; no push without the url.
RemoteUrl(r) ==
  /\ ppc = "remote_url"
  /\ Execute("remote_url")
  /\ IF r = "raise"
       THEN Except
       ELSE /\ ppc' = IF r = "ok" THEN "push" ELSE "default_branch"
            /\ UNCHANGED <<linear_comments, raised>>
  /\ UNCHANGED <<checkout, run_config, has_uncommitted_changes, pr_url,
                 hooks, pr_open, github_calls, at_start>>

\* Lines 646-657: git push of the target branch; result not looked at.
Push(r) ==
  /\ ppc = "push"
  /\ Execute("push")
  /\ IF r = "raise"
       THEN Except /\ UNCHANGED checkout
       ELSE /\ checkout' = IF r = "ok" /\ checkout.branch = "target"
                                       /\ checkout.commits
                             THEN [checkout EXCEPT !.pushed = TRUE]
                             ELSE checkout
            /\ ppc' = "default_branch"
            /\ UNCHANGED <<linear_comments, raised>>
  /\ UNCHANGED <<run_config, has_uncommitted_changes, pr_url, hooks, pr_open,
                 github_calls, at_start>>

\* Line 660: the default branch is asked of GitHub, "main" on any failure.
GetDefaultBranch ==
  /\ ppc = "default_branch"
  /\ github_calls' = Append(github_calls, "get_repo")
  /\ ppc' = "create_pr"
  /\ UNCHANGED <<checkout, run_config, has_uncommitted_changes, pr_url,
                 hooks, pr_open, git_cmds, linear_comments, at_start, raised>>

\* What GitHub answers to the request for a pull request: 201, 422 (always
\* so when the branch has a pull request already), or no usable answer.
Answers == {"created", "rejected", "error"}

\* Lines 666-696: the pull request is asked of GitHub and the comment is
\* posted, with the pull request if GitHub gave one; create_github_pr
\* (174-249) turns every failure into (None, None).
CreatePr(answer) ==
  /\ ppc = "create_pr"
  /\ answer = "created" => ~pr_open
  /\ github_calls' = Append(github_calls, "create_pull")
  /\ pr_url' = (answer = "created")
  /\ pr_open' = (pr_open \/ answer = "created")
  /\ PostResponse(IF answer = "created" THEN "pull_request_created"
                                        ELSE "agent_response")
  /\ ppc' = "done"
  /\ UNCHANGED <<checkout, run_config, has_uncommitted_changes, hooks,
                 git_cmds, at_start, raised>>

\* The hook has returned and the run is over; nothing of it is kept but the
\* checkout and what GitHub holds.
RunOver ==
  /\ ppc = "done"
  /\ ppc' = "idle"
  /\ run_config' = NoRunConfig
  /\ has_uncommitted_changes' = FALSE
  /\ pr_url' = FALSE
  /\ git_cmds' = <<>>
  /\ github_calls' = <<>>
  /\ linear_comments' = <<>>
  /\ at_start' = NotStarted
  /\ raised' = FALSE
  /\ tool_result' = "none"
  /\ UNCHANGED <<checkout, pr_open, hooks>>

(***************************************************************************)
(* commit_and_open_pr (tools/commit_and_open_pr.py 112-217) with the git   *)
(* helpers of utils/github.py.  The agent of the run calls the tool and    *)
(* waits for its result.                                                   *)
(***************************************************************************)

\* What the tool leaves alone.
toolFrame == <<ppc, run_config, has_uncommitted_changes, pr_url, hooks,
               linear_comments, raised>>

\* A tool whose except clause lets the exception through.
ToolReturn_Reraise(result) ==
  /\ tpc' = IF result = "exception" THEN "raised" ELSE "returned"
  /\ tool_result' = IF result = "exception" THEN "none" ELSE result
  /\ UNCHANGED tool_uncommitted

\* The tool returns a result; line 215-217 turns an exception into one.
ToolReturn(result) ==
  /\ tpc' = "returned"
  /\ tool_result' = result
  /\ UNCHANGED tool_uncommitted

\* Lines 179-182: without a token, absent or decrypting to "", the tool
\* returns; with one it goes on to the push.
ToolToken ==
  IF run_config.token # "absent" /\ DecryptToken(run_config.token) # ""
    THEN tpc' = "remote_url" /\ UNCHANGED <<tool_result, tool_uncommitted>>
    ELSE ToolReturn("Missing GitHub token")

\* Lines 113-142: the early returns of the tool; handle says whether the
\* lookup of lines 129-140 gives a sandbox handle.
ToolCall(handle) ==
  /\ ppc = "agent"
  /\ tpc = "idle"
  /\ at_start' = Found("tool")
  /\ git_cmds' = <<>>
  /\ github_calls' = <<>>
  /\ IF ~run_config.thread
       THEN ToolReturn("Missing thread_id in config")
       ELSE IF ~handle
         THEN ToolReturn("No sandbox found for thread")
         ELSE /\ tpc' = "status"
              /\ tool_result' = "none"
              /\ UNCHANGED tool_uncommitted
  /\ UNCHANGED <<checkout, pr_open, toolFrame>>

\* Line 144, git_has_uncommitted_changes (github.py 45-48).
ToolStatus(r) ==
  /\ tpc = "status"
  /\ Execute("status")
  /\ IF r = "raise"
       THEN ToolReturn("exception")
       ELSE /\ tool_uncommitted' = (r = "ok" /\ checkout.dirty)
            /\ tpc' = "fetch"
            /\ UNCHANGED tool_result
  /\ UNCHANGED <<checkout, pr_open, github_calls, at_start, toolFrame>>

\* Line 145, git_fetch_origin (github.py 51-53).
ToolFetch(r) ==
  /\ tpc = "fetch"
  /\ Execute("fetch")
  /\ IF r = "raise"
       THEN ToolReturn("exception")
       ELSE tpc' = "log" /\ UNCHANGED <<tool_result, tool_uncommitted>>
  /\ UNCHANGED <<checkout, pr_open, github_calls, at_start, toolFrame>>

\* Lines 146-149, git_has_unpushed_commits (github.py 56-63).
ToolLog(r) ==
  /\ tpc = "log"
  /\ Execute("log")
  /\ IF r = "raise"
       THEN ToolReturn("exception")
       ELSE IF tool_uncommitted \/ (r = "ok" /\ LogPrints(checkout))
         THEN tpc' = "rev_parse" /\ UNCHANGED <<tool_result, tool_uncommitted>>
         ELSE ToolReturn("No changes detected")
  /\ UNCHANGED <<checkout, pr_open, github_calls, at_start, toolFrame>>

\* Lines 151-153, git_current_branch (github.py 66-69).
ToolRevParse(r) ==
  /\ tpc = "rev_parse"
  /\ Execute("rev_parse")
  /\ IF r = "raise"
       THEN ToolReturn("exception")
       ELSE /\ tpc' = IF r = "ok" /\ checkout.branch = "target"
                        THEN "config_name" ELSE "checkout_b"
            /\ UNCHANGED <<tool_result, tool_uncommitted>>
  /\ UNCHANGED <<checkout, pr_open, github_calls, at_start, toolFrame>>

\* Line 154, git_checkout_branch (github.py 72-79): git checkout -b.
ToolCheckoutNew(r) ==
  /\ tpc = "checkout_b"
  /\ Execute("checkout_b")
  /\ IF r = "raise"
       THEN ToolReturn("exception") /\ UNCHANGED checkout
       ELSE /\ IF r = "ok" /\ ~checkout.has_target
                 THEN /\ checkout' = [checkout EXCEPT !.branch = "target",
                                                      !.has_target = TRUE,
                                                      !.upstream = FALSE]
                      /\ tpc' = "config_name"
                 ELSE /\ tpc' = "checkout"
                      /\ UNCHANGED checkout
            /\ UNCHANGED <<tool_result, tool_uncommitted>>
  /\ UNCHANGED <<pr_open, github_calls, at_start, toolFrame>>

\* Lines 154-159, git_checkout_branch (github.py 80-81): git checkout of the
\* existing branch, and the return if it fails too.
ToolCheckoutExisting(r) ==
  /\ tpc = "checkout"
  /\ Execute("checkout")
  /\ IF r = "raise"
       THEN ToolReturn("exception") /\ UNCHANGED checkout
       ELSE IF r = "ok" /\ checkout.has_target
         THEN /\ \E c \in Checkouts :
                   /\ c.branch = "target"
                   /\ c.dirty = checkout.dirty
                   /\ c.upstream = checkout.upstream
                   /\ checkout.branch = "target" => c = checkout
                   /\ checkout' = c
              /\ tpc' = "config_name"
              /\ UNCHANGED <<tool_result, tool_uncommitted>>
         ELSE /\ ToolReturn("Failed to checkout branch")
              /\ UNCHANGED checkout
  /\ UNCHANGED <<pr_open, github_calls, at_start, toolFrame>>

\* Lines 161-166, git_config_user (github.py 84-94), and line 167,
\* git_add_all (github.py 97-99); no result is looked at.
ToolPrepare(cmd, r) ==
  /\ Execute(cmd)
  /\ UNCHANGED <<checkout, pr_open, github_calls, at_start, toolFrame>>

ToolConfigName(r) ==
  /\ tpc = "config_name"
  /\ ToolPrepare("config_name", r)
  /\ IF r = "raise"
       THEN ToolReturn("exception")
       ELSE tpc' = "config_email" /\ UNCHANGED <<tool_result, tool_uncommitted>>

ToolConfigEmail(r) ==
  /\ tpc = "config_email"
  /\ ToolPrepare("config_email", r)
  /\ IF r = "raise"
       THEN ToolReturn("exception")
       ELSE tpc' = "add" /\ UNCHANGED <<tool_result, tool_uncommitted>>

\* Lines 167-170 and 179-182: after git add -A the commit is made only with
\* uncommitted changes; without them the token is read next.
ToolAdd(r) ==
  /\ tpc = "add"
  /\ ToolPrepare("add", r)
  /\ IF r = "raise"
       THEN ToolReturn("exception")
       ELSE IF tool_uncommitted
         THEN /\ tpc' = IF r = "ok" THEN "commit" ELSE "commit_unstaged"
              /\ UNCHANGED <<tool_result, tool_uncommitted>>
         ELSE ToolToken

\* Lines 171-182, git_commit (github.py 102-105): git refuses a commit with
\* nothing staged, and the tool returns on a commit that failed.
ToolCommit(r) ==
  /\ tpc \in {"commit", "commit_unstaged"}
  /\ Execute("commit")
  /\ IF r = "raise"
       THEN ToolReturn("exception") /\ UNCHANGED checkout
       ELSE IF r = "ok" /\ tpc = "commit" /\ checkout.dirty
         THEN /\ checkout' = [checkout EXCEPT !.dirty = FALSE,
                                              !.commits = TRUE,
                                              !.pushed = FALSE]
              /\ ToolToken
         ELSE ToolReturn("Git commit failed") /\ UNCHANGED checkout
  /\ UNCHANGED <<pr_open, github_calls, at_start, toolFrame>>

\* Line 184, git_push (github.py 124), git_get_remote_url (108-113).
ToolRemoteUrl(r) ==
  /\ tpc = "remote_url"
  /\ Execute("remote_url")
  /\ IF r = "raise"
       THEN ToolReturn("exception")
       ELSE tpc' = "push" /\ UNCHANGED <<tool_result, tool_uncommitted>>
  /\ UNCHANGED <<checkout, pr_open, github_calls, at_start, toolFrame>>

\* Lines 184-190, git_push (github.py 125-128): the push, and the return if
\* it failed.
ToolPush(r) ==
  /\ tpc = "push"
  /\ Execute("push")
  /\ IF r = "raise"
       THEN ToolReturn("exception") /\ UNCHANGED checkout
       ELSE IF r = "ok"
         THEN /\ checkout' = IF checkout.branch = "target" /\ checkout.commits
                               THEN [checkout EXCEPT !.pushed = TRUE]
                               ELSE checkout
              /\ tpc' = "default_branch"
              /\ UNCHANGED <<tool_result, tool_uncommitted>>
         ELSE ToolReturn("Git push failed") /\ UNCHANGED checkout
  /\ UNCHANGED <<pr_open, github_calls, at_start, toolFrame>>

\* Lines 192-194: the default branch is asked of GitHub.
ToolDefaultBranch ==
  /\ tpc = "default_branch"
  /\ github_calls' = Append(github_calls, "get_repo")
  /\ tpc' = "create_pr"
  /\ UNCHANGED <<checkout, pr_open, git_cmds, at_start, tool_result,
                 tool_uncommitted, toolFrame>>

\* Lines 195-214: the pull request is asked of GitHub.
ToolCreatePr(answer) ==
  /\ tpc = "create_pr"
  /\ answer = "created" => ~pr_open
  /\ github_calls' = Append(github_calls, "create_pull")
  /\ pr_open' = (pr_open \/ answer = "created")
  /\ ToolReturn(IF answer = "created" THEN "success"
                                      ELSE "Failed to create GitHub PR")
  /\ UNCHANGED <<checkout, git_cmds, at_start, toolFrame>>

\* The agent reads the result of the tool and goes on with its run.
ToolMessage ==
  /\ tpc = "returned"
  /\ tpc' = "idle"
  /\ tool_result' = "none"
  /\ at_start' = NotStarted
  /\ git_cmds' = <<>>
  /\ github_calls' = <<>>
  /\ tool_uncommitted' = FALSE
  /\ UNCHANGED <<checkout, pr_open, toolFrame>>

PRNext ==
  \/ \E c \in RunConfigs : RunStarts(c) /\ UNCHANGED <<otherThanPR, toolVars>>
  \/ \E text \in BOOLEAN :
       PostToLinearAfterModel(text) /\ UNCHANGED <<otherThanPR, toolVars>>
  \/ \E c \in Checkouts : AgentWorks(c) /\ UNCHANGED <<otherThanPR, toolVars>>
  \/ OpenPrIfNeeded /\ UNCHANGED <<otherThanPR, tpc, tool_uncommitted>>
  \/ \E r \in Outcomes : GitStatus(r) /\ UNCHANGED <<otherThanPR, toolVars>>
  \/ \E r \in Outcomes : GitFetch(r) /\ UNCHANGED <<otherThanPR, toolVars>>
  \/ \E r \in Outcomes : GitLog(r) /\ UNCHANGED <<otherThanPR, toolVars>>
  \/ \E r \in Outcomes : RevParse(r) /\ UNCHANGED <<otherThanPR, toolVars>>
  \/ \E r \in Outcomes : CheckoutNew(r) /\ UNCHANGED <<otherThanPR, toolVars>>
  \/ \E r \in Outcomes : CheckoutExisting(r) /\ UNCHANGED <<otherThanPR, toolVars>>
  \/ \E r \in Outcomes : ConfigName(r) /\ UNCHANGED <<otherThanPR, toolVars>>
  \/ \E r \in Outcomes : ConfigEmail(r) /\ UNCHANGED <<otherThanPR, toolVars>>
  \/ \E r \in Outcomes : AddAll(r) /\ UNCHANGED <<otherThanPR, toolVars>>
  \/ \E r \in Outcomes : Commit(r) /\ UNCHANGED <<otherThanPR, toolVars>>
  \/ \E r \in Outcomes : RemoteUrl(r) /\ UNCHANGED <<otherThanPR, toolVars>>
  \/ \E r \in Outcomes : Push(r) /\ UNCHANGED <<otherThanPR, toolVars>>
  \/ GetDefaultBranch /\ UNCHANGED <<otherThanPR, toolVars>>
  \/ \E answer \in Answers : CreatePr(answer) /\ UNCHANGED <<otherThanPR, toolVars>>
  \/ RunOver /\ UNCHANGED <<otherThanPR, tpc, tool_uncommitted>>
  \/ \E handle \in BOOLEAN : ToolCall(handle) /\ UNCHANGED otherThanPR
  \/ \E r \in Outcomes : ToolStatus(r) /\ UNCHANGED otherThanPR
  \/ \E r \in Outcomes : ToolFetch(r) /\ UNCHANGED otherThanPR
  \/ \E r \in Outcomes : ToolLog(r) /\ UNCHANGED otherThanPR
  \/ \E r \in Outcomes : ToolRevParse(r) /\ UNCHANGED otherThanPR
  \/ \E r \in Outcomes : ToolCheckoutNew(r) /\ UNCHANGED otherThanPR
  \/ \E r \in Outcomes : ToolCheckoutExisting(r) /\ UNCHANGED otherThanPR
  \/ \E r \in Outcomes : ToolConfigName(r) /\ UNCHANGED otherThanPR
  \/ \E r \in Outcomes : ToolConfigEmail(r) /\ UNCHANGED otherThanPR
  \/ \E r \in Outcomes : ToolAdd(r) /\ UNCHANGED otherThanPR
  \/ \E r \in Outcomes : ToolCommit(r) /\ UNCHANGED otherThanPR
  \/ \E r \in Outcomes : ToolRemoteUrl(r) /\ UNCHANGED otherThanPR
  \/ \E r \in Outcomes : ToolPush(r) /\ UNCHANGED otherThanPR
  \/ ToolDefaultBranch /\ UNCHANGED otherThanPR
  \/ \E answer \in Answers : ToolCreatePr(answer) /\ UNCHANGED otherThanPR
  \/ ToolMessage /\ UNCHANGED otherThanPR

PRSpec == Init /\ [][PRNext]_vars

(***************************************************************************)
(* Properties of the after-agent PR finalization.                          *)
(***************************************************************************)

\* The git commands that change the checkout, its configuration or the remote.
MutatingCommands == {"checkout_b", "checkout", "config_name", "config_email",
                     "add", "commit", "push"}

Mutated == \E i \in 1..Len(git_cmds) : git_cmds[i] \in MutatingCommands

\* The comments that carry the agent's response and nothing else.
PlainResponses == {"agent_response", "agent_response_bare"}

\* C10: a hook run on a checkout with no uncommitted change and no
\* unpushed commit issues no mutating git command, calls GitHub never, and
\* posts exactly one comment, the plain agent response.
C10_NoChangesOnePlainComment ==
  CleanAtStart("hook") =>
    /\ ~Mutated
    /\ github_calls = <<>>
    /\ ppc = "done" =>
         /\ Len(linear_comments) = 1
         /\ linear_comments[1] \in PlainResponses


(***************************************************************************)
(* What a finalization, the hook or the tool, has done so far.             *)
(***************************************************************************)
Issued(cmd) == \E i \in 1..Len(git_cmds) : git_cmds[i] = cmd

Called(call) == \E i \in 1..Len(github_calls) : github_calls[i] = call

Posted(kind) == \E i \in 1..Len(linear_comments) : linear_comments[i] = kind

\* The run has no token to push with: none stored, or one that decrypts
\* to "".
NoToken == run_config.token \in {"absent", "undecryptable"}

\* The last two commands were git add -A and git commit.
StagedAndCommitted ==
  /\ Len(git_cmds) >= 2
  /\ git_cmds[Len(git_cmds) - 1] = "add"
  /\ git_cmds[Len(git_cmds)] = "commit"

\* C11: a finalization that found uncommitted changes and has no GitHub
\* token issues git add and git commit (unless a sandbox command raised or
\* the branch could not be checked out before), never calls the endpoint
\* that creates a pull request, and neither its comment nor its result says
\* that a pull request was created; the tool that reports the missing token
\* has committed the changes.
C11_NoTokenCommitsLocally ==
  /\ (at_start.by = "hook" /\ NoToken) =>
       /\ ~Called("create_pull")
       /\ ~Posted("pull_request_created")
       /\ (ppc = "done" /\ has_uncommitted_changes) =>
            \/ StagedAndCommitted
            \/ raised /\ ~Issued("commit")
  /\ (at_start.by = "tool" /\ NoToken) =>
       /\ ~Called("create_pull")
       /\ tool_result # "success"
       /\ (tpc = "returned" /\ tool_uncommitted) =>
            \/ /\ StagedAndCommitted
               /\ tool_result \in {"Missing GitHub token", "Git commit failed",
                                   "exception"}
               /\ tool_result = "Missing GitHub token" =>
                    (~checkout.dirty /\ checkout.commits)
            \/ /\ ~Issued("commit")
               /\ tool_result \in {"Failed to checkout branch", "exception"}

\* A hook run with a token that decrypts to "" found uncommitted changes,
\* committed them, and posted the plain agent response.
C11_Witness ==
  /\ at_start.by = "hook" /\ ppc = "done" /\ ~raised
  /\ run_config.token = "undecryptable"
  /\ has_uncommitted_changes /\ at_start.dirty
  /\ StagedAndCommitted
  /\ ~checkout.dirty /\ checkout.commits
  /\ github_calls = <<>>
  /\ linear_comments = <<"agent_response">>

\* The finalization found changes and went on past the change detection.
ChangesFound == Issued("rev_parse")

\* Lines 596-603: the comment of the hook that found no changes.
NoChangesComments == <<"agent_response">>

\* C12: a finalization that found changes and has no token, none stored or
\* one decrypting to "", reports something else than the finalization that
\* found no changes: the hook of a run with an issue id and a last message
\* posts other comments, the tool returns another result.
C12_NoTokenDistinctFromNoChanges ==
  /\ ( /\ at_start.by = "hook" /\ ppc = "done"
       /\ run_config.issue /\ run_config.content
       /\ NoToken /\ ChangesFound )
       => linear_comments # NoChangesComments
  /\ ( /\ at_start.by = "tool" /\ tpc = "returned"
       /\ NoToken /\ ChangesFound )
       => tool_result # "No changes detected"

\* The comments that contain the agent's response text.
CarriesResponse == {"pull_request_created", "agent_response",
                    "agent_response_bare", "model_response"}

\* C13: when the run of a triggering comment is over, whatever its outcome
\* (pull request opened, pull request failed, no changes), exactly one
\* comment has been posted on the issue, and it contains the agent's
\* response text.
C13_OneCommentPerOutcome ==
  (ppc = "done" /\ run_config.issue) =>
    /\ Len(linear_comments) = 1
    /\ linear_comments[1] \in CarriesResponse

\* The hook has pushed and the commits of the feature branch are still not
\* on the remote.
PushFailed ==
  /\ Issued("push")
  /\ checkout.branch = "target" /\ checkout.commits /\ ~checkout.pushed

\* The hook has asked for a pull request and has none.
PrFailed == Called("create_pull") /\ ~pr_url

\* C14: when the push or the creation of the pull request failed in the
\* hook of a run with an issue and a last message, a comment that reports
\* the error has been posted when the hook is over.
C14_FailureSurfaced ==
  ( /\ at_start.by = "hook" /\ ppc = "done"
    /\ run_config.issue /\ run_config.content
    /\ PushFailed \/ PrFailed )
    => Posted("agent_error")

\* The finalization started on what an earlier one left: the work tree
\* clean, the commits of the feature branch pushed, the pull request open.
FinalizedAtStart ==
  /\ at_start.by \in {"hook", "tool"}
  /\ ~at_start.dirty /\ at_start.commits /\ at_start.pushed
  /\ at_start.pr_open

\* C15: a finalization that starts after an earlier one committed, pushed
\* the feature branch and opened the pull request, with nothing changed
\* since, issues no commit and no push and does not ask for a pull request.
C15_RerunIsNoOp ==
  FinalizedAtStart =>
    /\ ~Issued("commit")
    /\ ~Issued("push")
    /\ ~Called("create_pull")

\* The comments the hook posted, without the one posted after the first
\* model call.
HookComments == SelectSeq(linear_comments, LAMBDA k : k # "model_response")

MaxBody == 2

BodyBytes == {"a", "b"}

\* The request bodies, as sequences of bytes.
Bodies == UNION {[1..n -> BodyBytes] : n \in 0..MaxBody}

\* The values of LINEAR_WEBHOOK_SECRET (line 23): "" when it is not set.
Secrets == {"", "k1", "k2"}

\* The keys a sender signs with.
SigningKeys == Secrets \ {""}

\* A digest that depends on the key only.
Hmac_KeyOnly(secret, body) == [key |-> secret, msg |-> <<>>]

\* hmac.new(secret, body, sha256).hexdigest() (line 709), as a function
\* that gives another digest for another key or another body: collisions
\* of HMAC-SHA256 are not modelled.
Hmac(secret, body) == [key |-> secret, msg |-> body]

\* Lines 706-711.
VerifyLinearSignature(body, signature, secret) ==
  IF secret = "" THEN TRUE ELSE Hmac(secret, body) = signature

\* verify_linear_signature is called with a body, with the signature a
\* sender made of a body with a key, and with the configured secret.
VerifyCall(body, signed, key, secret) ==
  /\ verify_call' =
       [called |-> TRUE, body |-> body, signed |-> signed, key |-> key,
        secret |-> secret,
        result |-> VerifyLinearSignature(body, Hmac(key, signed), secret)]
  /\ UNCHANGED <<wh_pc, delivery, response, background_tasks>>

SignatureNext ==
  \E body \in Bodies, signed \in Bodies, key \in SigningKeys,
     secret \in Secrets :
    VerifyCall(body, signed, key, secret) /\ UNCHANGED otherThanWebhook

SignatureSpec == Init /\ [][SignatureNext]_vars

\* Two bodies of the same length that differ in one byte.
OneByteApart(a, b) ==
  /\ Len(a) = Len(b)
  /\ Cardinality({i \in 1..Len(a) : a[i] # b[i]}) = 1

\* C17: verify_linear_signature returns true for the signature made of the
\* body with the secret, false with a secret set when the body is not the
\* body that was signed (one byte changed, or any other difference), and
\* true for every body and signature when the secret is empty.
C17_SignatureVerification ==
  verify_call.called =>
    LET c == verify_call
    IN  /\ (c.secret # "" /\ c.key = c.secret /\ c.signed = c.body)
             => c.result
        /\ (c.secret # "" /\ c.signed # c.body) => ~c.result
        /\ (c.secret # "" /\ OneByteApart(c.signed, c.body)) => ~c.result
        /\ c.secret = "" => c.result

\* A body one byte away from the body signed with the secret was rejected.
C17_Witness ==
  /\ verify_call.called
  /\ verify_call.secret = "k1" /\ verify_call.key = "k1"
  /\ OneByteApart(verify_call.signed, verify_call.body)
  /\ ~verify_call.result

(***************************************************************************)
(* linear_webhook (webapp.py 714-834) and                                  *)
(* get_repo_config_from_team_mapping (95-135)                              *)
(*                                                                         *)
(* A comment body is the sequence of its pieces of text.  The headers are  *)
(* written here by the code points of their first characters: server.py    *)
(* and the middleware write the emoji themselves, webapp.py writes each    *)
(* emoji as the three or four characters its bytes give when read in       *)
(* another encoding, in the comments it posts and in bot_message_prefixes. *)
(***************************************************************************)

\* server.py 509, 556, 572, 599, 693; 681; 708.
AgentResponseHeader == "U+1F916 **Agent Response**"
PullRequestHeader == "U+2705 **Pull Request Created**"
AgentErrorHeader == "U+274C **Agent Error**"

\* middleware/open_pr.py 84.
BareResponseHeader == " **Agent Response**"

\* webapp.py 541, 555, 673, 686; 680.
AuthRequiredHeader ==
  "U+F8FF U+00FC U+00EE U+00EA **GitHub Authentication Required**"
ConfigErrorHeader == "U+201A U+00F9 U+00E5 **Configuration Error**"

\* webapp.py 757-762.
bot_message_prefixes ==
  <<"U+F8FF U+00FC U+00EE U+00EA **GitHub Authentication Required**",
    "U+201A U+00FA U+00D6 **Pull Request Created**",
    "U+F8FF U+00FC U+00A7 U+00F1 **Agent Response**",
    "U+201A U+00F9 U+00E5 **Agent Error**">>

\* The text an agent, an exception or a user puts in a comment.
Texts == {"fix the bug", "@openswe", "@OpenSWE"}

\* user_mention (webapp.py 513).
UserMentions == {"", "@alice"}

\* The comments the system posts: the agent response, the pull request
\* comment, the agent error, the two comments of process_linear_issue.
OwnComments ==
  {<<h, t>> : h \in {AgentResponseHeader, BareResponseHeader,
                     AgentErrorHeader}, t \in Texts}
    \cup {<<PullRequestHeader, AgentResponseHeader, t>> : t \in Texts}
    \cup {<<AuthRequiredHeader, m, "@openswe">> : m \in UserMentions}
    \cup {<<ConfigErrorHeader, m>> : m \in UserMentions}

\* Comments users write; the last one starts with a prefix of the list.
UserComments ==
  {<<>>, <<"fix the bug">>, <<"@openswe", "fix the bug">>,
   <<"fix the bug", "@OpenSWE">>, <<bot_message_prefixes[3], "@openswe">>}

CommentBodies == OwnComments \cup UserComments

\* A text left as it is.
Unchanged(text) == text

\* str.lower() (line 767) on the texts of the model.
Lower(text) == IF text = "@OpenSWE" THEN "@openswe" ELSE text

\* str.startswith (line 764).
StartsWith(body, prefix) == body # <<>> /\ Head(body) = prefix

\* Lines 763-766.
IsOwnBotMessage(body) ==
  \E i \in 1..Len(bot_message_prefixes) :
    StartsWith(body, bot_message_prefixes[i])

\* Line 767.
MentionsOpenSwe(body) == \E i \in 1..Len(body) : Lower(body[i]) = "@openswe"

Repo(owner, name) == [owner |-> owner, name |-> name]

\* Python's None where a repository config is expected.
NoRepo == Repo(None, None)

\* Line 135 and lines 807-808.
FallbackRepo == Repo("langchain-ai", "langchainplus")

NoProjects == [p \in {} |-> NoRepo]

\* An entry of the table: flat is the repository of a flat entry,
\* has_projects says whether the entry has the key "projects", default is
\* the repository under the key "default".
TeamEntry(flat, has_projects, projects, default) ==
  [flat |-> flat, has_projects |-> has_projects, projects |-> projects,
   default |-> default]

TeamKeys == {"Brace's test workspace", "Yogesh-dev", "LangChain OSS",
             "Applied AI", "Docs"}

\* Lines 72-92.
LINEAR_TEAM_TO_REPO ==
  [k \in TeamKeys |->
     CASE k = "Brace's test workspace" ->
            TeamEntry(Repo("langchain-ai", "open-swe"), FALSE, NoProjects,
                      NoRepo)
       [] k = "Yogesh-dev" ->
            TeamEntry(Repo("aran-yogesh", "TalkBack"), FALSE, NoProjects,
                      NoRepo)
       [] k = "LangChain OSS" ->
            TeamEntry(NoRepo, TRUE,
                      [p \in {"deepagents", "langchain"} |->
                         Repo("langchain-ai", p)],
                      NoRepo)
       [] k = "Applied AI" ->
            TeamEntry(NoRepo, TRUE,
                      [p \in {"GTM Engineering"} |->
                         Repo("langchain-ai", "ai-sdr")],
                      NoRepo)
       [] k = "Docs" ->
            TeamEntry(NoRepo, FALSE, NoProjects,
                      Repo("langchain-ai", "docs"))]

\* Lines 111-120, and 123-132 alike: the lookup of one key; otherwise is
\* where the function goes on when the key gives nothing.
LookUp(key, project_name, otherwise) ==
  IF key # "" /\ key \in DOMAIN LINEAR_TEAM_TO_REPO
    THEN LET config == LINEAR_TEAM_TO_REPO[key]
         IN  IF config.flat # NoRepo
               THEN config.flat
               ELSE IF config.has_projects /\ project_name # ""
                 THEN IF project_name \in DOMAIN config.projects
                        THEN config.projects[project_name]
                        ELSE NoRepo
                 ELSE IF config.default # NoRepo
                   THEN config.default
                   ELSE otherwise
    ELSE otherwise

\* A lookup that tries the team name before the team id.
GetRepoConfig_NameFirst(team_name, team_id, project_name) ==
  LookUp(team_name, project_name,
         LookUp(team_id, project_name, FallbackRepo))

\* Lines 95-135.
GetRepoConfigFromTeamMapping(team_name, team_id, project_name) ==
  LookUp(team_id, project_name,
         LookUp(team_name, project_name, FallbackRepo))

\* The team names, team ids and project names of the issues delivered.
TeamNames == {"", "Brace's test workspace", "LangChain OSS", " Docs",
              "Unknown team"}
TeamIds == {"", "team-uuid", "Brace's test workspace", "LangChain OSS"}
ProjectNames == {"", "deepagents", "unknown project"}

\* str.strip() (lines 786-787) on the names of the model.
Strip(text) == IF text = " Docs" THEN "Docs" ELSE text

\* The label lists of the issues delivered.
LabelLists == {<<>>, <<"bug", "repo:acme/widgets">>, <<"repo:nowhere">>,
               <<"repo:/widgets">>}

\* Lines 802-805: the repository a label names, None if it names none.
LabelRepo(label) ==
  CASE label = "repo:acme/widgets" -> Repo("acme", "widgets")
    [] label = "repo:/widgets" -> Repo("", "widgets")
    [] OTHER -> NoRepo

\* Lines 799-806: the repository of the first label that names one.
RECURSIVE FirstLabelRepo(_)
FirstLabelRepo(labels) ==
  IF labels = <<>>
    THEN NoRepo
    ELSE IF LabelRepo(Head(labels)) # NoRepo
      THEN LabelRepo(Head(labels))
      ELSE FirstLabelRepo(Tail(labels))

\* Lines 786-808: the repository of an accepted delivery.
ResolveRepo(d) ==
  LET repo_config ==
        GetRepoConfigFromTeamMapping(Strip(d.team_name), d.team_id,
                                     Strip(d.project_name))
  IN  IF repo_config # NoRepo
        THEN repo_config
        ELSE IF FirstLabelRepo(d.labels) # NoRepo
          THEN FirstLabelRepo(d.labels)
          ELSE FallbackRepo

\* How the Linear-Signature header of a delivery was made: of the body sent
\* with the key "k1", of another body with that key, or not at all.
SignatureKinds == {"valid", "tampered", "missing"}

\* The requests delivered: the configured secret, the signature, and what
\* the body holds.  A body that is not JSON holds nothing else, and a
\* comment without issue data has no team, project or labels.
Deliveries ==
  {d \in [secret : {"", "k1"}, signature : SignatureKinds, json : BOOLEAN,
          type : {"Comment", "Issue"}, action : {"create", "update"},
          botActor : BOOLEAN, body : CommentBodies, has_issue : BOOLEAN,
          team_name : TeamNames, team_id : TeamIds,
          project_name : ProjectNames, labels : LabelLists] :
     /\ d.type = "Issue" => d.action = "create"
     /\ ~d.has_issue =>
          /\ d.team_name = "" /\ d.team_id = ""
          /\ d.project_name = "" /\ d.labels = <<>>
     /\ ~d.json =>
          /\ d.type = "Comment" /\ d.action = "create" /\ ~d.botActor
          /\ d.body = <<>> /\ ~d.has_issue}

\* The bytes of the request: everything but the secret and the signature.
RawBody(d) ==
  [json |-> d.json, type |-> d.type, action |-> d.action,
   botActor |-> d.botActor, body |-> d.body, has_issue |-> d.has_issue,
   team_name |-> d.team_name, team_id |-> d.team_id,
   project_name |-> d.project_name, labels |-> d.labels]

\* The Linear-Signature header of the request (line 724); the header that
\* is missing is no digest of any secret.
Signature(d) ==
  CASE d.signature = "valid" -> Hmac("k1", RawBody(d))
    [] d.signature = "tampered" ->
         Hmac("k1", [RawBody(d) EXCEPT !.botActor = ~@])
    [] OTHER -> Hmac("none", RawBody(d))

\* Line 722: the body of a request has arrived.
Receive ==
  /\ wh_pc = "idle"
  /\ \E d \in Deliveries : delivery' = d
  /\ wh_pc' = "received"
  /\ UNCHANGED <<verify_call, response, background_tasks>>

\* Lines 724-829: the handler, from the signature to the answer.
LinearWebhook ==
  /\ wh_pc = "received"
  /\ wh_pc' = "responded"
  /\ LET d == delivery
         Ignored == response' = "ignored" /\ UNCHANGED background_tasks
     IN  IF d.secret # ""
              /\ ~VerifyLinearSignature(RawBody(d), Signature(d), d.secret)
           THEN response' = "401" /\ UNCHANGED background_tasks
         ELSE IF ~d.json
           THEN response' = "error" /\ UNCHANGED background_tasks
         ELSE IF d.type # "Comment" THEN Ignored
         ELSE IF d.action # "create" THEN Ignored
         ELSE IF d.botActor THEN Ignored
         ELSE IF IsOwnBotMessage(d.body) THEN Ignored
         ELSE IF ~MentionsOpenSwe(d.body) THEN Ignored
         ELSE IF ~d.has_issue THEN Ignored
         ELSE /\ background_tasks' =
                   Append(background_tasks,
                          [repo_config |-> ResolveRepo(d),
                           triggering_comment |-> d.body])
              /\ response' = "accepted"
  /\ UNCHANGED <<verify_call, delivery>>

\* The answer is sent, the tasks of the request are started, and the
\* request is over.
RunBackgroundTasks ==
  /\ wh_pc = "responded"
  /\ wh_pc' = "idle"
  /\ delivery' = NoDelivery
  /\ response' = "none"
  /\ background_tasks' = <<>>
  /\ UNCHANGED verify_call

WebhookNext ==
  \/ Receive /\ UNCHANGED otherThanWebhook
  \/ LinearWebhook /\ UNCHANGED otherThanWebhook
  \/ RunBackgroundTasks /\ UNCHANGED otherThanWebhook

WebhookSpec == Init /\ [][WebhookNext]_vars

\* A delivery that is a trigger: it passes the signature verification, is
\* the creation of a comment that no bot wrote, that does not start with a
\* prefix of the list and mentions @openswe in any case, and it has issue
\* data.
IsTrigger(d) ==
  /\ d.secret = "" \/ d.signature = "valid"
  /\ d.json /\ d.type = "Comment" /\ d.action = "create"
  /\ ~d.botActor
  /\ ~ /\ d.body # <<>>
       /\ Head(d.body) \in {bot_message_prefixes[i] :
                              i \in 1..Len(bot_message_prefixes)}
  /\ \E i \in 1..Len(d.body) : d.body[i] \in {"@openswe", "@OpenSWE"}
  /\ d.has_issue

\* C18: the handler schedules one task, for the comment delivered, and
\* answers "accepted" when the delivery is a trigger; for any other
\* delivery it schedules none and answers "ignored", "error" or 401.
C18_SchedulesOnlyTriggers ==
  /\ wh_pc # "responded" => background_tasks = <<>>
  /\ wh_pc = "responded" =>
       IF IsTrigger(delivery)
         THEN /\ response = "accepted"
              /\ Len(background_tasks) = 1
              /\ background_tasks[1].triggering_comment = delivery.body
         ELSE /\ response \in {"ignored", "error", "401"}
              /\ background_tasks = <<>>

\* A signed comment that mentions @OpenSWE was accepted and has its task.
C18_Witness ==
  /\ wh_pc = "responded" /\ response = "accepted"
  /\ delivery.secret = "k1" /\ delivery.signature = "valid"
  /\ delivery.body = <<"fix the bug", "@OpenSWE">>
  /\ Len(background_tasks) = 1

\* C19: no comment the system posts itself, whatever text or user name is
\* in it, is accepted as a trigger when it is delivered as a new comment.
C19_OwnCommentsNeverTrigger ==
  ( /\ wh_pc = "responded"
    /\ delivery.json /\ delivery.type = "Comment"
    /\ delivery.action = "create"
    /\ delivery.body \in OwnComments )
    => /\ response # "accepted"
       /\ background_tasks = <<>>

\* What the table of lines 72-92 holds for the issue of a delivery, written
\* out for the names of the model: the team id is looked up before the
\* team name; an entry with projects gives the repository of the project,
\* and None, which ends the lookup, for a project it does not have; with no
\* entry for the id or the name the lookup gives the fallback.
ExpectedTableEntry(d) ==
  LET project == IF d.project_name = "deepagents"
                   THEN Repo("langchain-ai", "deepagents")
                   ELSE NoRepo
      name == IF d.team_name = " Docs" THEN "Docs" ELSE d.team_name
  IN  CASE d.team_id = "Brace's test workspace" ->
             Repo("langchain-ai", "open-swe")
        [] d.team_id = "LangChain OSS" /\ d.project_name # "" -> project
        [] OTHER ->
             CASE name = "Brace's test workspace" ->
                    Repo("langchain-ai", "open-swe")
               [] name = "Docs" -> Repo("langchain-ai", "docs")
               [] name = "LangChain OSS" /\ d.project_name # "" -> project
               [] OTHER -> Repo("langchain-ai", "langchainplus")

\* The request was accepted and its task is scheduled.
Accepted ==
  wh_pc = "responded" /\ response = "accepted" /\ Len(background_tasks) = 1

\* C20 as stated: the repository of an accepted delivery has an owner and a
\* name; it is the entry of the table when one matches and the fallback
\* repository otherwise.
C20_TableEntryOrFallback ==
  Accepted =>
    LET repo_config == background_tasks[1].repo_config
        entry == ExpectedTableEntry(delivery)
    IN  /\ repo_config.owner # None /\ repo_config.name # None
        /\ repo_config = IF entry # NoRepo THEN entry ELSE FallbackRepo

\* C20 amended: the repository of an accepted delivery has an owner and a
\* name; it is the entry of the table when one matches; when the team's
\* entry has projects and lacks the project of the issue, it is the
\* repository named by the first label of the form repo:<owner>/<name> of
\* the issue, if there is one; otherwise it is the fallback repository.
C20_TableEntryLabelOrFallback ==
  Accepted =>
    LET repo_config == background_tasks[1].repo_config
        entry == ExpectedTableEntry(delivery)
        label == FirstLabelRepo(delivery.labels)
    IN  /\ repo_config.owner # None /\ repo_config.name # None
        /\ repo_config = IF entry # NoRepo THEN entry
                         ELSE IF label # NoRepo THEN label
                         ELSE FallbackRepo

\* An issue of a known team with an unknown project and a repo label was
\* accepted for the repository of the label.
C20_Witness ==
  /\ Accepted
  /\ delivery.team_id = "team-uuid"
  /\ delivery.team_name = "LangChain OSS"
  /\ delivery.project_name = "unknown project"
  /\ delivery.labels = <<"bug", "repo:acme/widgets">>
  /\ background_tasks[1].repo_config = Repo("acme", "widgets")

(***************************************************************************)
(* encrypt_token and decrypt_token (encryption.py)                         *)
(***************************************************************************)

\* The values of TOKEN_ENCRYPTION_KEY: not set, three Fernet keys, and a
\* value that is not 32 url-safe base64-encoded bytes.
EnvKeys == {"", "K1", "K2", "K3", "not a Fernet key"}

FernetKeys == {"K1", "K2", "K3"}

PlainTokens == {"ghp_a", "ghp_b", "ghp_c"}

\* A token as a value of the same form.
Plain(token) == IF token = "" THEN EmptyString ELSE Stored("plain", "", token)

\* What decrypt_token is given.
StoredValues ==
  {EmptyString, Stored("garbage", "", ""), Stored("unencodable", "", "")}
    \cup {Stored(kind, key, plain) : kind \in {"ciphertext", "tampered"},
                                     key \in FernetKeys,
                                     plain \in PlainTokens}

\* The outcome of a call: the value returned, or the exception raised.
Returns(value) == [raised |-> None, result |-> value]
Raises(exception) == [raised |-> exception, result |-> EmptyString]

\* Lines 15-31 and Fernet(key): the key cannot be used.
KeyError(key) ==
  IF key = "" THEN "EncryptionKeyMissingError"
  ELSE IF key \notin FernetKeys THEN "ValueError"
  ELSE None

\* Lines 34-49.
EncryptToken(token, key) ==
  IF token = "" THEN Returns(EmptyString)
  ELSE IF KeyError(key) # None THEN Raises(KeyError(key))
  ELSE Returns(Stored("ciphertext", key, token))

\* Lines 52-74: the key is read and the Fernet object made (65-66), the
\* value is encoded and decrypted (67), and of the exceptions only
\* InvalidToken and EncryptionKeyMissingError are caught (69-74).
DecryptTokenOutcome(value, key) ==
  IF value.kind = "empty" THEN Returns(EmptyString)
  ELSE IF KeyError(key) = "EncryptionKeyMissingError"
    THEN Returns(EmptyString)
  ELSE IF KeyError(key) # None THEN Raises(KeyError(key))
  ELSE IF value.kind = "unencodable" THEN Raises("UnicodeEncodeError")
  ELSE IF value.kind = "ciphertext" /\ value.key = key
    THEN Returns(Plain(value.plain))
  ELSE Returns(EmptyString)

EncryptCall(token, key) ==
  crypt_call' = [fn |-> "encrypt_token", key |-> key, arg |-> Plain(token)]
                  @@ EncryptToken(token, key)

DecryptCall(value, key) ==
  crypt_call' = [fn |-> "decrypt_token", key |-> key, arg |-> value]
                  @@ DecryptTokenOutcome(value, key)

EncryptionNext ==
  \/ \E token \in PlainTokens \cup {""}, key \in EnvKeys :
       EncryptCall(token, key) /\ UNCHANGED otherThanCrypt
  \/ \E value \in StoredValues, key \in EnvKeys :
       DecryptCall(value, key) /\ UNCHANGED otherThanCrypt

EncryptionSpec == Init /\ [][EncryptionNext]_vars

\* The value was not made by encrypt_token with the key configured.
NotProduced(value, key) ==
  ~(value.kind = "ciphertext" /\ value.key = key)

\* C21: decrypt_token never raises: for the empty string, for a value that
\* encrypt_token did not make with the key configured, and without a key,
\* it returns the empty string.
C21_DecryptNeverRaises ==
  crypt_call.fn = "decrypt_token" =>
    /\ crypt_call.raised = None
    /\ ( \/ crypt_call.arg = EmptyString
         \/ NotProduced(crypt_call.arg, crypt_call.key)
         \/ crypt_call.key = "" )
         => crypt_call.result = EmptyString

(***************************************************************************)
(* ToolErrorMiddleware (middleware/tool_error_handler.py)                  *)
(***************************************************************************)

\* A request carries the tool call: the tool's name (possibly empty) and
\* the call's id (possibly None).
ToolNames == {"execute", "commit_and_open_pr", ""}
ToolCallIds == {"call_1", None}
Requests == [name : ToolNames, id : ToolCallIds]

\* Exception classes a handler can raise. The first three derive from
\* Exception; CancelledError (a cancelled awaited call), KeyboardInterrupt
\* and SystemExit derive from BaseException only.
ExceptionClasses == {"ValueError", "RuntimeError", "TimeoutError"}
BaseExceptionOnly == {"CancelledError", "KeyboardInterrupt", "SystemExit"}
ErrorTexts == {"", "boom"}

\* What a handler does: it returns a ToolMessage or a Command, or raises.
HandlerResults ==
  {[type |-> "ToolMessage", content |-> "ok", status |-> "success"],
   [type |-> "ToolMessage", content |-> "failed", status |-> "error"],
   [type |-> "Command", update |-> "state"]}

HandlerOutcomes ==
  {[raised |-> None, result |-> r] : r \in HandlerResults}
    \cup {[raised |-> c, text |-> t] :
            c \in ExceptionClasses \cup BaseExceptionOnly, t \in ErrorTexts}

\* Lines 36-43: the name of the tool call if it is a non-empty string,
\* otherwise None.
ExtractToolName(request) == IF request.name # "" THEN request.name ELSE None

\* Lines 46-55: the keys of the payload and their values; the key name is
\* present only if a tool name was found.
ToErrorPayload(e, request) ==
  LET data == [error |-> e.text, error_type |-> e.raised,
               status |-> "error"]
  IN IF ExtractToolName(request) # None
       THEN data @@ [name |-> ExtractToolName(request)]
       ELSE data

\* Lines 58-61.
GetToolCallId(request) == request.id

\* `except Exception` (lines 80 and 96) matches these classes.
Caught(class) == class \in ExceptionClasses

\* A wrapper without the try block: every exception propagates.
WrapWithoutTry(request, outcome) ==
  IF outcome.raised = None
    THEN [did |-> "returned", value |-> outcome.result]
    ELSE [did |-> "raised", class |-> outcome.raised]

\* Lines 73-87: the handler's result, or for an exception that the except
\* clause matches a ToolMessage with the payload as its content; any other
\* exception leaves the wrapper.
WrapToolCall(request, outcome) ==
  IF outcome.raised = None
    THEN [did |-> "returned", value |-> outcome.result]
  ELSE IF Caught(outcome.raised)
    THEN [did |-> "returned",
          value |-> [type |-> "ToolMessage",
                     content |-> ToErrorPayload(outcome, request),
                     tool_call_id |-> GetToolCallId(request),
                     status |-> "error"]]
  ELSE [did |-> "raised", class |-> outcome.raised]

\* Lines 89-103: the same around an awaited handler.
AwrapToolCall(request, outcome) ==
  IF outcome.raised = None
    THEN [did |-> "returned", value |-> outcome.result]
  ELSE IF Caught(outcome.raised)
    THEN [did |-> "returned",
          value |-> [type |-> "ToolMessage",
                     content |-> ToErrorPayload(outcome, request),
                     tool_call_id |-> GetToolCallId(request),
                     status |-> "error"]]
  ELSE [did |-> "raised", class |-> outcome.raised]

SyncToolCall ==
  \E request \in Requests, outcome \in HandlerOutcomes :
    wrapped_call' = [wrapper |-> "wrap_tool_call", request |-> request,
                     handler |-> outcome,
                     outcome |-> WrapToolCall(request, outcome)]

AsyncToolCall ==
  \E request \in Requests, outcome \in HandlerOutcomes :
    wrapped_call' = [wrapper |-> "awrap_tool_call", request |-> request,
                     handler |-> outcome,
                     outcome |-> AwrapToolCall(request, outcome)]

ToolErrorNext ==
  \/ SyncToolCall /\ UNCHANGED otherThanWrap
  \/ AsyncToolCall /\ UNCHANGED otherThanWrap

ToolErrorSpec == Init /\ [][ToolErrorNext]_vars

\* The wrapper returned a ToolMessage of status error whose payload has
\* the keys error, error_type and status, with status "error".
ReturnedErrorMessage ==
  /\ wrapped_call.outcome.did = "returned"
  /\ wrapped_call.outcome.value.type = "ToolMessage"
  /\ wrapped_call.outcome.value.status = "error"
  /\ {"error", "error_type", "status"}
       \subseteq DOMAIN wrapped_call.outcome.value.content
  /\ wrapped_call.outcome.value.content.error = wrapped_call.handler.text
  /\ wrapped_call.outcome.value.content.error_type
       = wrapped_call.handler.raised
  /\ wrapped_call.outcome.value.content.status = "error"

\* The wrapper returned what the handler returned.
ReturnedUnchanged ==
  /\ wrapped_call.outcome.did = "returned"
  /\ wrapped_call.outcome.value = wrapped_call.handler.result

GithubTokens == {"", "ghs_token"}

cloneFrame == <<workspace_dir, origin_url, local_changes>>
callFrame == <<dir_at_call, status_result, token_used, pulled_dirty>>

\* The routine ends: it returns repo_dir or raises.
CloneEnds(how) ==
  /\ clone_pc' = "idle"
  /\ clone_outcome' = how

\* execute raised: the except clause of the command logs and re-raises.
ExecuteRaises ==
  /\ CloneEnds("SandboxError")
  /\ faulted' = TRUE

\* Between calls the agent works in the sandbox with a shell: it edits
\* files, and it can remove .git, remove the directory or make it.
AgentShell ==
  /\ clone_pc = "idle"
  /\ \/ /\ workspace_dir = "checkout"
        /\ local_changes' \in BOOLEAN
        /\ UNCHANGED <<workspace_dir, origin_url>>
     \/ /\ workspace_dir = "checkout"
        /\ workspace_dir' = "files"
        /\ origin_url' = "none"
        /\ local_changes' = FALSE
     \/ /\ workspace_dir' \in {"absent", "empty", "files"}
        /\ origin_url' = "none"
        /\ local_changes' = FALSE
  /\ UNCHANGED <<clone_pc, status_result, executed, clone_outcome,
                 dir_at_call, token_used, pulled_dirty, faulted>>

\* Lines 738-747: the call; without a token it raises ValueError.
CloneOrPull(github_token) ==
  /\ clone_pc = "idle"
  /\ dir_at_call' = workspace_dir
  /\ status_result' = NoStatus
  /\ executed' = <<>>
  /\ token_used' = FALSE
  /\ pulled_dirty' = FALSE
  /\ faulted' = FALSE
  /\ IF github_token = ""
       THEN CloneEnds("ValueError")
       ELSE clone_pc' = "check" /\ clone_outcome' = None
  /\ UNCHANGED cloneFrame

\* Lines 30-35 of utils/github.py and 752, 763 of server.py: the directory
\* holds a .git directory.
IsValidGitRepo(dir) == dir = "checkout"

\* Lines 749-763: test -d <repo_dir>/.git && echo exists.
CheckExists ==
  /\ clone_pc = "check"
  /\ executed' = Append(executed, "test")
  /\ \/ ExecuteRaises
     \/ /\ clone_pc' = IF IsValidGitRepo(workspace_dir)
                         THEN "status" ELSE "clone"
        /\ UNCHANGED <<clone_outcome, faulted>>
  /\ UNCHANGED <<cloneFrame, callFrame>>

\* Lines 764-772: git status --porcelain; its output is not empty exactly
\* if the checkout holds uncommitted changes, or it exits with an error.
GitStatusPorcelain ==
  /\ clone_pc = "status"
  /\ executed' = Append(executed, "status")
  /\ \/ ExecuteRaises /\ UNCHANGED status_result
     \/ /\ status_result' = [exit_code |-> 0, output |-> local_changes]
        /\ clone_pc' = "set_url"
        /\ UNCHANGED <<clone_outcome, faulted>>
     \/ /\ status_result' = [exit_code |-> 128, output |-> FALSE]
        /\ clone_pc' = "set_url"
        /\ faulted' = TRUE
        /\ UNCHANGED clone_outcome
  /\ UNCHANGED <<cloneFrame, dir_at_call, token_used, pulled_dirty>>

\* A pull whenever git status exited with 0.
ShouldPull_ExitCodeOnly(status) == status.exit_code = 0

\* Line 786: status_result.exit_code == 0 and not
\* status_result.output.strip().
ShouldPull(status) == status.exit_code = 0 /\ ~status.output

\* Lines 774-786: git remote set-url origin <clean_url>; the exit code is
\* not looked at. Then line 786 decides on the pull.
SetUrlBeforePull ==
  /\ clone_pc = "set_url"
  /\ executed' = Append(executed, "set_url")
  /\ \/ ExecuteRaises /\ UNCHANGED origin_url
     \/ /\ \/ origin_url' = "clean" /\ UNCHANGED faulted
           \/ UNCHANGED origin_url /\ faulted' = TRUE
        /\ IF ShouldPull(status_result)
             THEN clone_pc' = "pull" /\ UNCHANGED clone_outcome
             ELSE CloneEnds("returned")
  /\ UNCHANGED <<workspace_dir, local_changes, callFrame>>

\* Lines 787-801: git pull <auth_url>; the URL is given on the command
\* line and is not stored. A failed pull is logged, and the routine returns.
GitPull ==
  /\ clone_pc = "pull"
  /\ executed' = Append(executed, "pull")
  /\ token_used' = TRUE
  /\ pulled_dirty' = local_changes
  /\ \/ ExecuteRaises
     \/ CloneEnds("returned") /\ UNCHANGED faulted
     \/ CloneEnds("returned") /\ faulted' = TRUE
  /\ UNCHANGED <<cloneFrame, dir_at_call, status_result>>

\* git clone <url> <dir> works in a directory that is absent or empty.
CanCloneInto(dir) == dir \in {"absent", "empty"}

\* Lines 802-817: git clone <clone_url> <repo_dir>. It stores the URL it is
\* given as remote.origin.url. A non-zero exit raises RuntimeError.
GitClone ==
  /\ clone_pc = "clone"
  /\ executed' = Append(executed, "clone")
  /\ token_used' = TRUE
  /\ \/ /\ CanCloneInto(workspace_dir)
        /\ workspace_dir' = "checkout"
        /\ origin_url' = "token"
        /\ local_changes' = FALSE
        /\ \/ clone_pc' = "clean" /\ UNCHANGED <<clone_outcome, faulted>>
           \/ ExecuteRaises
     \/ /\ CanCloneInto(workspace_dir)
        /\ \/ ExecuteRaises
           \/ CloneEnds("RuntimeError") /\ faulted' = TRUE
        /\ UNCHANGED cloneFrame
     \/ /\ ~CanCloneInto(workspace_dir)
        /\ \/ ExecuteRaises
           \/ CloneEnds("RuntimeError") /\ UNCHANGED faulted
        /\ UNCHANGED cloneFrame
  /\ UNCHANGED <<dir_at_call, status_result, pulled_dirty>>

\* Lines 819-831: git remote set-url origin <clean_url> after the clone;
\* the exit code is not looked at.
SetUrlAfterClone ==
  /\ clone_pc = "clean"
  /\ executed' = Append(executed, "set_url")
  /\ \/ ExecuteRaises /\ UNCHANGED origin_url
     \/ CloneEnds("returned") /\ origin_url' = "clean" /\ UNCHANGED faulted
     \/ CloneEnds("returned") /\ UNCHANGED origin_url /\ faulted' = TRUE
  /\ UNCHANGED <<workspace_dir, local_changes, callFrame>>

CloneNext ==
  \/ AgentShell /\ UNCHANGED otherThanClone
  \/ \E github_token \in GithubTokens :
       CloneOrPull(github_token) /\ UNCHANGED otherThanClone
  \/ CheckExists /\ UNCHANGED otherThanClone
  \/ GitStatusPorcelain /\ UNCHANGED otherThanClone
  \/ SetUrlBeforePull /\ UNCHANGED otherThanClone
  \/ GitPull /\ UNCHANGED otherThanClone
  \/ GitClone /\ UNCHANGED otherThanClone
  \/ SetUrlAfterClone /\ UNCHANGED otherThanClone

CloneSpec == Init /\ [][CloneNext]_vars

Ran(cmd) == \E i \in 1..Len(executed) : executed[i] = cmd

\* C23: whenever the routine has finished, returned or raised, after a
\* clone or pull with the token, the origin URL of the checkout is the
\* token-free one.
C23_OriginTokenFree ==
  (clone_pc = "idle" /\ clone_outcome # None /\ token_used)
    => origin_url # "token"

\* C24: git pull runs only if git status --porcelain exited with 0 and
\* printed nothing, and never on a checkout with uncommitted changes.
C24_PullOnlyWhenClean ==
  Ran("pull") =>
    /\ Ran("status")
    /\ status_result.exit_code = 0
    /\ ~status_result.output
    /\ ~pulled_dirty

\* A call found the checkout clean, pulled and returned.
C24_Witness ==
  /\ clone_outcome = "returned"
  /\ Ran("pull")
  /\ status_result.exit_code = 0

\* The commands of the repair the routine would make in a directory that
\* is no checkout.
RepairCommands == {"init", "remote", "fetch", "checkout"}

\* C27: a call in which no command failed for an outside reason returns,
\* having cloned if the directory was absent, having gone to the
\* conditional pull if it was a checkout, and having re-initialised git in
\* place if it was present, held files and was no checkout; the directory
\* is not deleted.
C27_ThreeDirectoryStates ==
  (clone_pc = "idle" /\ clone_outcome \notin {None, "ValueError"}
     /\ ~faulted)
    => /\ clone_outcome = "returned"
       /\ workspace_dir = "checkout"
       /\ dir_at_call = "absent" => Ran("clone")
       /\ dir_at_call = "checkout" => Ran("status") /\ ~Ran("clone")
       /\ dir_at_call = "files" => \E cmd \in RepairCommands : Ran(cmd)

(***************************************************************************)
(* The persisted sandbox_id of a thread over the calls of get_agent.       *)
(***************************************************************************)

\* The kind of a persisted value.
IdState(v) ==
  IF v = None THEN "NONE"
  ELSE IF v = SANDBOX_CREATING THEN "CREATING" ELSE "READY"

\* The call of p has written the sentinel (903 or 950-953) and not yet the
\* value that replaces it (912-915, 932, 959-962, 966).
Creating(p) == pc[p] \in {"provision", "persist", "reprovision", "repersist"}

\* The sentinel is persisted only while a call on the thread is creating.
CreatorInProgress ==
  \A t \in Threads :
    sandbox_id[t] = SANDBOX_CREATING =>
      \E p \in Procs : tid[p] = t /\ Creating(p)

\* The moves of the claim: NONE -> CREATING -> READY, CREATING -> NONE.
CreateMoves ==
  {<<"NONE", "CREATING">>, <<"CREATING", "READY">>, <<"CREATING", "NONE">>}

\* 950-953: a reconnect that failed takes a persisted id to the sentinel.
ReplaceMoves == {<<"READY", "CREATING">>}

\* 912-915, 918-932: the id is persisted before the clone, and a clone that
\* fails takes it to none.
CloneFailureMoves == {<<"READY", "NONE">>}

\* The calls that take a step.
Stepping == {p \in Procs : pc'[p] # pc[p]}

\* Every change of a thread's persisted id made by a call that no other
\* call on the thread has overlapped is one of the moves.
SoloMovesWithin(moves) ==
  \A t \in Threads :
    (sandbox_id'[t] # sandbox_id[t] /\ \A p \in Stepping : solo[p]) =>
      <<IdState(sandbox_id[t]), IdState(sandbox_id'[t])>> \in moves

C26_IdPersistedBeforeClone ==
  [][\A p \in Procs :
       (pc[p] # "clone" /\ pc'[p] = "clone") =>
         /\ path[p] = "create"
         /\ backend[p] \in SandboxIds
         /\ sandbox_id'[tid[p]] = backend[p]]_vars

\* While a call clones into the sandbox it created, another call on the
\* thread has read the real id and is connecting to that sandbox.
C26_Witness ==
  \E p \in Procs, q \in Procs :
    /\ p # q
    /\ pc[p] = "clone"
    /\ tid[q] = tid[p]
    /\ pc[q] = "connect"
    /\ sid[q] = backend[p]
    /\ backend[p] \notin cloned

(***************************************************************************)
(* The drain hook's delete, and the enqueues between two drains.           *)
(***************************************************************************)

\* The contents injected into the conversation of a thread so far.
Injected(t) == Contents(Flatten(messages[t]))

\* The step of the hook that follows its read deletes the item, and a step
\* that injects is such a step.
DeleteFollowsRead ==
  \A t \in Threads :
    /\ (hpc[t] = "delete" /\ hpc'[t] # "delete") => ~store'[t].present
    /\ messages'[t] # messages[t] =>
         hpc[t] = "delete" /\ ~store'[t].present

C29_AppendOnlyUntilDrained ==
  \A t \in Threads :
    hpc[t] = "idle" =>
      \A m \in Contents(pending[t]) :
        store[t].present /\ m \in Contents(store[t].messages)

\* C30: the after-agent hook and the commit_and_open_pr tool issue git
\* commit only if git status had reported uncommitted changes; with only
\* commits to push, no commit is attempted.
C30_CommitOnlyWithUncommitted ==
  Issued("commit") =>
    IF at_start.by = "tool" THEN tool_uncommitted
                            ELSE has_uncommitted_changes

\* C31: before it commits, the hook or the tool has made the thread's
\* branch the current branch, by creating it or by switching to it; the
\* commit and the push are made with that branch checked out.
C31_CommitsOnFeatureBranch ==
  (Issued("commit") \/ Issued("push")) => checkout.branch = "target"

(***************************************************************************)
(* The push of PR finalization: open_pr_if_needed (server.py 637-657,      *)
(* middleware/open_pr.py 178-196) and git_push (utils/github.py 108-128),  *)
(* in the checkout that _clone_or_pull_repo_in_sandbox made.               *)
(***************************************************************************)

PushTokens == {"", "ghs_push"}

\* The URL stored as remote.origin.url (server.py 775, 804, 819): the clean
\* URL, or the clone URL with the token of the clone.
StoredOrigin ==
  IF origin_url = "clean" THEN Url("", "github.com")
  ELSE IF origin_url = "token" THEN Url("ghs_token", "github.com")
  ELSE NoUrl

\* A push to the URL as it is stored.
AuthUrl_Unchanged(url, token) == url

\* Line 650 (github.py 125): remote_url.replace("https://",
\* "https://git:<token>@").
AuthUrl(url, token) == [url EXCEPT !.userinfo = token]

\* Lines 648 and 124: "github.com" in remote_url and "@" not in remote_url.
IsCleanGithubUrl(url) == url.host = "github.com" /\ url.userinfo = ""

\* Lines 648-657 and 124-128: the remote the push is given.
PushTarget(url, token) ==
  IF url # NoUrl /\ IsCleanGithubUrl(url) /\ token # ""
    THEN [remote |-> "url", url |-> AuthUrl(url, token)]
    ELSE [remote |-> "origin", url |-> NoUrl]

\* Lines 637-641 (commit_and_open_pr.py 179-184): the token is decrypted;
\* without one there is no push.
StartPush(by, token) ==
  /\ push_pc = "idle"
  /\ clone_pc = "idle"
  /\ workspace_dir = "checkout"
  /\ push_by' = by
  /\ push_token' = token
  /\ origin_before' = origin_url
  /\ remote_url' = NoUrl
  /\ pushed_to' = NoPush
  /\ push_pc' = IF token = "" THEN "idle" ELSE "get_url"

\* Lines 642-646 and git_get_remote_url (108-113): git remote get-url
\* origin. If it fails the hook does not push, and git_push pushes to
\* origin; if execute raises, the finalization ends.
GetRemoteUrl ==
  /\ push_pc = "get_url"
  /\ \/ remote_url' = StoredOrigin /\ push_pc' = "push"
     \/ /\ remote_url' = NoUrl
        /\ push_pc' = IF push_by = "hook" THEN "idle" ELSE "push"
     \/ remote_url' = NoUrl /\ push_pc' = "idle"
  /\ UNCHANGED <<push_by, push_token, pushed_to, origin_before>>

\* Lines 648-657 and 124-128: git push <auth_url> <branch> or git push
\* origin <branch>; neither writes to the git configuration.
GitPush ==
  /\ push_pc = "push"
  /\ pushed_to' = PushTarget(remote_url, push_token)
  /\ push_pc' = "idle"
  /\ UNCHANGED <<push_by, push_token, remote_url, origin_before>>

PushNext ==
  \/ push_pc = "idle" /\ CloneNext
  \/ \E by \in {"hook", "tool"}, token \in PushTokens :
       StartPush(by, token) /\ UNCHANGED otherThanPush
  \/ GetRemoteUrl /\ UNCHANGED otherThanPush
  \/ GitPush /\ UNCHANGED otherThanPush

PushSpec == Init /\ [][PushNext]_vars

\* C32: a push that read a clean origin URL is given that URL with the
\* token put in, and no step of the push changes the origin URL stored in
\* the checkout's git configuration.
C32_PushLeavesOriginUnchanged ==
  /\ [][push_pc # "idle" => origin_url' = origin_url]_vars
  /\ []((pushed_to # NoPush /\ origin_before = "clean" /\ remote_url # NoUrl)
          => /\ pushed_to.remote = "url"
             /\ pushed_to.url = Url(push_token, "github.com")
             /\ pushed_to.url # Url("", "github.com"))

\* A push was given the URL with the token while the stored URL is clean.
C32_Witness ==
  /\ push_pc = "idle"
  /\ pushed_to.remote = "url"
  /\ pushed_to.url.userinfo = "ghs_push"
  /\ origin_url = "clean"

\* C33: a message enqueued for a thread that was seen busy is delivered by
\* the run that was busy: once the thread is no longer busy and no
\* processing of a comment is under way, the store holds no message for it.
C33_NoneRemainsAfterRun ==
  \A t \in Threads :
    (thread_status[t] # "busy" /\ \A k \in Tasks : wpc[k] = "idle")
      => ~store[t].present

(***************************************************************************)
(* post_to_linear_after_model (middleware/post_to_linear.py 23-116,        *)
(* server.py 431-522) over the conversation of one thread: runs that start *)
(* with a human message, follow-ups the queue hook injects before a model  *)
(* call, replies of the model, and tool results.                           *)
(***************************************************************************)

MaxMessages == 6

Message(role, text, tool_calls) ==
  [role |-> role, text |-> text, tool_calls |-> tool_calls]

\* Lines 55-62 and 77-84: the messages of a role.
RECURSIVE CountRole(_, _)
CountRole(msgs, role) ==
  IF msgs = <<>> THEN 0
  ELSE (IF Head(msgs).role = role THEN 1 ELSE 0) + CountRole(Tail(msgs), role)

\* A check of the human messages that lets every conversation through.
HumanCountOk_Any(n) == TRUE

\* Line 64: human_message_count != 1 returns None.
HumanCountOk(n) == n = 1

\* Lines 46-103: the hook goes on to post the last message.
ShouldPost(issue, msgs, sent_count) ==
  /\ issue
  /\ msgs # <<>>
  /\ HumanCountOk(CountRole(msgs, "human"))
  /\ msgs[Len(msgs)].role = "ai"
  /\ CountRole(msgs, "ai") > sent_count
  /\ Len(msgs) >= 2 => msgs[Len(msgs) - 1].role = "human"
  /\ msgs[Len(msgs)].text

\* After the hook: the tools of the reply run, or the agent is done and
\* the after-agent hook runs.
AfterReply ==
  IF conversation[Len(conversation)].tool_calls THEN "tools"
  ELSE "after_agent"

\* A run is created on the thread with a human message as its input
\* (webapp.py 659-668).
NotifyRunStarts(issue) ==
  /\ npc = "idle"
  /\ Len(conversation) < MaxMessages
  /\ conversation' = Append(conversation, Message("human", TRUE, FALSE))
  /\ has_issue' = issue
  /\ npc' = "before_model"
  /\ UNCHANGED <<linear_messages_sent_count, after_model_posts,
                 after_agent_posts>>

\* check_message_queue_before_model: with queued messages it adds one user
\* message to the conversation (check_message_queue.py 95-103).
BeforeModel(inject) ==
  /\ npc = "before_model"
  /\ inject => Len(conversation) < MaxMessages
  /\ conversation' =
       IF inject THEN Append(conversation, Message("human", TRUE, FALSE))
       ELSE conversation
  /\ npc' = "model"
  /\ UNCHANGED <<linear_messages_sent_count, has_issue, after_model_posts,
                 after_agent_posts>>

\* The model call: the reply is added to the conversation; its content is
\* a non-empty string or not, and it calls tools or not.
ModelReplies(text, tool_calls) ==
  /\ npc = "model"
  /\ Len(conversation) < MaxMessages
  /\ conversation' = Append(conversation, Message("ai", text, tool_calls))
  /\ npc' = "after_model"
  /\ UNCHANGED <<linear_messages_sent_count, has_issue, after_model_posts,
                 after_agent_posts>>

\* Lines 39-103: the hook up to its call of comment_on_linear_issue.
PostToLinear ==
  /\ npc = "after_model"
  /\ npc' = IF ShouldPost(has_issue, conversation, linear_messages_sent_count)
              THEN "posting" ELSE AfterReply
  /\ UNCHANGED <<conversation, linear_messages_sent_count, has_issue,
                 after_model_posts, after_agent_posts>>

\* Lines 108-116: the comment is posted and the count of the AI messages is
\* stored, or the call fails and the state is left as it is.
CommentOnLinearIssue(success) ==
  /\ npc = "posting"
  /\ IF success
       THEN /\ after_model_posts' =
                 Append(after_model_posts, Len(conversation))
            /\ linear_messages_sent_count' = CountRole(conversation, "ai")
       ELSE UNCHANGED <<after_model_posts, linear_messages_sent_count>>
  /\ npc' = AfterReply
  /\ UNCHANGED <<conversation, has_issue, after_agent_posts>>

\* The tools the reply called have run: their result is added.
ToolsRun ==
  /\ npc = "tools"
  /\ Len(conversation) < MaxMessages
  /\ conversation' = Append(conversation, Message("tool", TRUE, FALSE))
  /\ npc' = "before_model"
  /\ UNCHANGED <<linear_messages_sent_count, has_issue, after_model_posts,
                 after_agent_posts>>

\* The comments open_pr_if_needed ends with: the plain agent response
\* (server.py 555-559, 571-575, 598-602, 691-694), the response under the
\* pull request (680-690), or the error of the handler (700-718).
AgentComments == {"agent_response", "pull_request_created", "agent_error"}

\* open_pr_if_needed when the agent is done (server.py 525-718): it takes
\* the content of the last message (541-548) and posts it, for a run with
\* an issue id and a last message that has content; the error comment of
\* the handler needs the issue id only.
OpenPrComment(kind) ==
  /\ npc = "after_agent"
  /\ after_agent_posts' =
       IF has_issue /\ (kind = "agent_error"
                          \/ conversation[Len(conversation)].text)
         THEN Append(after_agent_posts,
                     [at |-> Len(conversation), kind |-> kind])
         ELSE after_agent_posts
  /\ npc' = "idle"
  /\ UNCHANGED <<conversation, linear_messages_sent_count, has_issue,
                 after_model_posts>>

NotifyNext ==
  \/ \E issue \in BOOLEAN : NotifyRunStarts(issue) /\ UNCHANGED otherThanNotify
  \/ \E inject \in BOOLEAN : BeforeModel(inject) /\ UNCHANGED otherThanNotify
  \/ \E text \in BOOLEAN, tool_calls \in BOOLEAN :
       ModelReplies(text, tool_calls) /\ UNCHANGED otherThanNotify
  \/ PostToLinear /\ UNCHANGED otherThanNotify
  \/ \E success \in BOOLEAN :
       CommentOnLinearIssue(success) /\ UNCHANGED otherThanNotify
  \/ ToolsRun /\ UNCHANGED otherThanNotify
  \/ \E kind \in AgentComments :
       OpenPrComment(kind) /\ UNCHANGED otherThanNotify

NotifySpec == Init /\ [][NotifyNext]_vars

\* C34: every comment of post_to_linear_after_model is an AI reply with text
\* that directly follows the only human message the conversation held by
\* then, no message is posted twice, and over the life of the thread, with
\* follow-ups injected and further runs, the hook posts at most one comment.
C34_AtMostOneModelResponse ==
  /\ Len(after_model_posts) <= 1
  /\ \A n \in 1..Len(after_model_posts) :
       LET i == after_model_posts[n]
       IN  /\ i >= 2
           /\ conversation[i].role = "ai" /\ conversation[i].text
           /\ conversation[i - 1].role = "human"
           /\ CountRole(SubSeq(conversation, 1, i), "human") = 1
           /\ \A m \in 1..Len(after_model_posts) :
                after_model_posts[m] = i => m = n

\* The hook has posted the first reply; since then a follow-up was injected
\* and a further run has ended with a reply that has text.
C34_Witness ==
  /\ npc = "idle"
  /\ after_model_posts = <<2>>
  /\ CountRole(conversation, "human") >= 3
  /\ conversation[Len(conversation)].role = "ai"
  /\ conversation[Len(conversation)].text
  /\ conversation[Len(conversation) - 1].role = "human"

\* The dict commit_and_open_pr returns (commit_and_open_pr.py 113-217): the
\* success dict of line 214 holds the url of the pull request, every other
\* return and the except clause of 215-217 hold an error text.
ResultDict(result) ==
  IF result = "success"
    THEN [success |-> TRUE, error |-> None, pr_url |-> "pr_url"]
    ELSE [success |-> FALSE, error |-> result, pr_url |-> None]

\* C35: commit_and_open_pr never raises; it returns a dict where success is
\* true exactly when pr_url is not null and error is null, and after every
\* failure, an exception in one of its steps included, success is false,
\* error is not null and pr_url is null.  It reports success only when
\* GitHub holds a pull request.
C35_ToolAlwaysReturnsDict ==
  /\ tpc # "raised"
  /\ tpc = "returned" =>
       LET d == ResultDict(tool_result)
       IN  /\ tool_result # "none"
           /\ d.success <=> (d.pr_url # None /\ d.error = None)
           /\ ~d.success => (d.error # None /\ d.pr_url = None)
           /\ d.success => (pr_open /\ Called("create_pull"))
           /\ ~Called("create_pull") => ~d.success

\* The tool has returned the error dict of its except clause after a git
\* command of its own raised.
C35_Witness ==
  /\ tpc = "returned"
  /\ tool_result = "exception"
  /\ Issued("add")

\* C36: process_linear_issue creates a run or enqueues a message only after
\* it obtained a GitHub token; when it obtained none, whichever way, it has
\* posted one comment to the issue and has neither created a run nor
\* enqueued; with a token it posts no comment about authentication.
C36_RunOrEnqueueOnlyWithToken ==
  \A k \in Tasks :
    /\ (did[k].enq \/ did[k].run \/ wpc[k] # "idle") => did[k].auth = "token"
    /\ did[k].auth \in AuthOutcomes \ {"token"} =>
         /\ did[k].comment # None
         /\ ~did[k].enq /\ ~did[k].run
         /\ did[k].status = None
    /\ did[k].auth = "token" => did[k].comment = None

\* One comment was answered with the comment of the missing OAuth provider
\* and nothing else, another one with a token has created a run.
C36_Witness ==
  \E j, k \in Tasks :
    /\ did[j].auth = "no_provider" /\ did[j].comment = "configuration_error"
    /\ ~did[j].enq /\ ~did[j].run
    /\ did[k].auth = "token" /\ did[k].run

\* C37: when no get_agent call is in progress on a thread and the calls
\* that have ended on it, the last one included, succeeded, the handle
\* registered for the thread has the sandbox id that is persisted for it,
\* also when the calls overlapped.
C37_RegistryMatchesPersisted ==
  \A t \in Threads :
    LET ended == {p \in Procs : Done(p) /\ tid[p] = t}
    IN  (/\ \A p \in Procs : pc[p] # "idle" => tid[p] # t
         /\ ended # {}
         /\ \A p \in ended : out[p] = "ok")
        => server_backends[t] = sandbox_id[t]

\* C38: for one sandbox at most one clone is in progress: while the call
\* that created a sandbox is in _clone_or_pull_repo_in_sandbox and the
\* sandbox holds no checkout yet, no other call is in that routine for the
\* same sandbox, where it would find no checkout and clone as well.
C38_OneCloneInProgress ==
  \A p, q \in Procs :
    (/\ p # q
     /\ pc[p] = "clone" /\ pc[q] \in {"clone", "sync"}
     /\ backend[p] = backend[q])
    => backend[p] \in cloned

\* C39: the request for a pull request is made only after a git push of
\* the thread's branch that exited with code 0: by then the push command
\* has run, and the remote holds the commits of the branch.
C39_PrOnlyAfterPush ==
  Called("create_pull") =>
    /\ Issued("push")
    /\ (checkout.branch = "target" /\ checkout.commits) => checkout.pushed

\* C40: within one run no AI message is posted to the issue as an agent
\* response comment by both hooks: a message post_to_linear_after_model
\* has posted is not posted again as the plain agent response comment of
\* open_pr_if_needed.
C40_ResponsePostedOnce ==
  \A n \in 1..Len(after_model_posts), m \in 1..Len(after_agent_posts) :
    after_agent_posts[m].at = after_model_posts[n]
      => after_agent_posts[m].kind # "agent_response"
=============================================================================
